---- MODULE Spec2Model ----
(***************************************************************************)
(* Skill-swap platform: the hosted relational store (tables, row-level     *)
(* security policies, triggers, cascades), the single-page client's pages  *)
(* and handlers that read and write it, and the REST prototype's swap      *)
(* controller over its own document store.                                 *)
(*                                                                         *)
(* A browser tab shows one route at a time; `page[t]` is the state of the  *)
(* component mounted in tab t.  A handler is one action: the write it      *)
(* issues, the branch on the returned error, and the refresh or            *)
(* navigation that follows.                                                *)
(***************************************************************************)
EXTENDS Integers, Sequences, FiniteSets, TLC

\* ------------------------------------------------------------------ bounds
\* rows ever inserted into skill_requests
MaxReq == 2
\* rows ever inserted into ratings
MaxRatings == 2
\* documents ever saved to the REST store's SwapRequest collection
MaxSwaps == 2

\* ------------------------------------------------------------ the universe
Users == {"u1", "u2", "u3"}
\* people who have not signed up yet: u4 will sign up as admin, u5 as user
NewUsers == {"u4", "u5"}
Tabs == {"t1", "t2", "t3", "t4", "t5", "t6", "t7"}
\* the user of each browser tab (u1 has two tabs open, t1 and t4, and the admin u3 has
\* t3 and t7; t5 and t6 are the browsers of u4 and u5)
tabUser(t) == CASE t = "t1" -> "u1" [] t = "t2" -> "u2" [] t = "t3" -> "u3"
                [] t = "t5" -> "u4" [] t = "t6" -> "u5" [] t = "t7" -> "u3" [] OTHER -> "u1"

request_status == {"pending", "accepted", "completed", "cancelled", "rejected"}
app_role == {"admin", "user"}
RatingValues == {1, 5}

VARIABLES
  user_roles,      \* table user_roles: set of [user_id, role]
  profiles,        \* table profiles: user_id -> [average_rating (hundredths), successful_swaps, is_banned]
  skills,          \* table skills: set of [id, user_id, is_offering, is_approved]
  skill_requests,  \* table skill_requests: set of rows
  ratings,         \* table ratings: set of rows
  nextReqId,       \* next fresh skill_requests.id
  nextRatingId,    \* next fresh ratings.id
  nextSkillId,     \* next fresh skills.id
  page,            \* tab -> state of the mounted page component
  lastWrite,       \* the last status UPDATE issued on skill_requests and its response
  lastInsert,      \* the last create of a request (either store) and its response
  lastRating,      \* the last INSERT issued on ratings and its response
  swapRequests,    \* REST store: SwapRequest documents
  nextSwapId,      \* next fresh SwapRequest._id
  restCall,        \* REST: the in-flight createSwapRequest call of each user
  messages,        \* table messages: set of [id, skill_request_id, sender_id, created_at]
  nextMsgId,       \* next fresh messages.id
  dbNow,           \* the store's clock, read by DEFAULT now()
  chatView,        \* tab -> the Chat component mounted in it
  channels,        \* tab -> the realtime subscriptions its client holds, in creation order
  inbox,           \* tab -> insert notifications on their way to the tab's handlers
  lastRead,        \* the result of the last messages query
  lastSend,        \* the last send of a message (either store) and its response
  chats,           \* REST store: Chat documents
  nextChatId,      \* next fresh Chat._id
  auth,            \* tab -> the AuthProvider of the client and its role resolution in flight
  localStorage,    \* tab -> the browser's cached_role_<uid> and admin_role_<uid> entries
  auth_users,      \* table auth.users: the ids of the signed-up users
  admin_messages,  \* table admin_messages: set of [id, admin_id, is_active]
  nextAdminMsgId,  \* next fresh admin_messages.id
  lastAdmin,       \* the last write issued by a handler of the Admin page and its response
  acceptCall,      \* REST: the in-flight acceptSwapRequest calls
  lastAccept       \* REST: the last response of acceptSwapRequest

authVars == <<auth, localStorage>>
msgVars == <<nextMsgId, dbNow, chatView, channels, inbox, lastRead, lastSend, chats, nextChatId>>
chatVars == <<messages, msgVars>>
adminVars == <<auth_users, admin_messages, nextAdminMsgId, lastAdmin>>
acceptVars == <<acceptCall, lastAccept>>

vars == <<user_roles, profiles, skills, skill_requests, ratings, nextReqId, nextRatingId, nextSkillId,
          page, lastWrite, lastInsert, lastRating, swapRequests, nextSwapId, restCall,
          chatVars, authVars, adminVars, acceptVars>>

dbVars == <<user_roles, profiles, skills, skill_requests, ratings, nextReqId, nextRatingId, nextSkillId>>
restVars == <<swapRequests, nextSwapId, restCall, acceptVars>>

\* ------------------------------------------------------------- row shapes
NoRequest == [id |-> 0, requester_id |-> "none", provider_id |-> "none",
              offered_skill_id |-> 0, wanted_skill_id |-> 0, status |-> "none"]

NoPage == [name |-> "none",
           incomingRequests |-> {}, outgoingRequests |-> {}, acceptedSwaps |-> {},
           pendingRequests |-> {}, connections |-> {},
           skillRequest |-> NoRequest,
           targetUser |-> "none", userSkillsOffered |-> {}, targetSkillsOffered |-> {},
           selectedOfferedSkill |-> 0, selectedWantedSkill |-> 0,
           skills |-> {},
           profiles |-> {}, bannedUsers |-> {}, unapprovedSkills |-> {}, adminMessages |-> {}]

NoWrite == [op |-> "none", caller |-> "none", id |-> 0, value |-> "none",
            before |-> NoRequest, rows |-> 0, error |-> "none"]

NoInsert == [store |-> "none", caller |-> "none", row |-> NoRequest,
             offeredOwned |-> FALSE, wantedOwned |-> FALSE, inserted |-> FALSE, error |-> "none"]

NoRatingRow == [id |-> 0, request_id |-> 0, rater_id |-> "none", rated_id |-> "none", rating |-> 0]

NoRatingInsert == [caller |-> "none", row |-> NoRatingRow, inserted |-> FALSE, error |-> "none"]

\* ------------------------------------------------------- row-level security
is_admin(uid) == \E r \in user_roles : r.user_id = uid /\ r.role = "admin"

\* "Users can view their own requests" (FOR SELECT USING)
RequestsSelectUsing(uid, r) ==
  uid = r.requester_id \/ uid = r.provider_id \/ is_admin(uid)

\* "Users can create requests" (FOR INSERT WITH CHECK)
RequestsInsertCheck(uid, r) == uid = r.requester_id

\* "Users can update their own requests" (FOR UPDATE USING)
RequestsUpdateUsing(uid, r) ==
  uid = r.requester_id \/ uid = r.provider_id \/ is_admin(uid)

\* ------------------------------------------------- skill_requests: UPDATE
\* .update({status}).eq('id', id): the rows the statement touches are those with the
\* id that the UPDATE policy's USING clause lets the caller see; a row it filters out
\* is skipped without an error.
\* variant: the statement also tests the stored status (a guarded, compare-and-set write)
UpdateTargets_pendingOnly(uid, id) ==
  {r \in skill_requests : r.id = id /\ RequestsUpdateUsing(uid, r) /\ r.status = "pending"}

UpdateTargets(uid, id) ==
  {r \in skill_requests : r.id = id /\ RequestsUpdateUsing(uid, r)}

SetStatus(uid, id, s) ==
  {IF r \in UpdateTargets(uid, id) THEN [r EXCEPT !.status = s] ELSE r : r \in skill_requests}

\* the { error } the client library hands back for the UPDATE
UpdateError(uid, id) == "none"

RowById(id) ==
  IF \E r \in skill_requests : r.id = id
  THEN CHOOSE r \in skill_requests : r.id = id
  ELSE NoRequest

WriteRecord(op, uid, id, s) ==
  [op |-> op, caller |-> uid, id |-> id, value |-> s, before |-> RowById(id),
   rows |-> Cardinality(UpdateTargets(uid, id)), error |-> UpdateError(uid, id)]


\* ------------------------------------------------------- page data fetches
\* Requests.fetchRequests: the three lists of the Requests page
RequestsPage(uid, reqs) ==
  [NoPage EXCEPT
     !.name = "Requests",
     !.incomingRequests = {r.id : r \in {x \in reqs : x.provider_id = uid /\ x.status = "pending"}},
     !.outgoingRequests = {[id |-> r.id, status |-> r.status] :
                             r \in {x \in reqs : x.requester_id = uid
                                                 /\ x.status \in {"pending", "accepted"}}},
     !.acceptedSwaps = {r.id : r \in {x \in reqs : (x.requester_id = uid \/ x.provider_id = uid)
                                                  /\ x.status = "accepted"}}]

\* Dashboard.fetchUserData: the pending requests addressed to the user
DashboardPage(uid, reqs) ==
  [NoPage EXCEPT
     !.name = "Dashboard",
     !.pendingRequests = {r.id : r \in {x \in reqs : x.provider_id = uid /\ x.status = "pending"}}]

\* Networks.fetchConnections: the accepted requests the user is party to
NetworksPage(uid, reqs) ==
  [NoPage EXCEPT
     !.name = "Networks",
     !.connections = {r.id : r \in {x \in reqs : (x.requester_id = uid \/ x.provider_id = uid)
                                                /\ x.status = "accepted"}}]

\* Chat.fetchChatData: .eq('id', requestId).single() under the SELECT policy; no visible
\* row is an error and leaves skillRequest null
ChatPage(uid, id, reqs) ==
  [NoPage EXCEPT
     !.name = "Chat",
     !.skillRequest = IF \E r \in reqs : r.id = id /\ RequestsSelectUsing(uid, r)
                      THEN CHOOSE r \in reqs : r.id = id
                      ELSE NoRequest]

\* ------------------------------------------------ lifecycle pages: mounting
OpenRequests(t) ==
  /\ page' = [page EXCEPT ![t] = RequestsPage(tabUser(t), skill_requests)]
  /\ UNCHANGED <<dbVars, restVars, authVars, adminVars, chatVars, lastWrite, lastInsert, lastRating>>

OpenDashboard(t) ==
  /\ page' = [page EXCEPT ![t] = DashboardPage(tabUser(t), skill_requests)]
  /\ UNCHANGED <<dbVars, restVars, authVars, adminVars, chatVars, lastWrite, lastInsert, lastRating>>

OpenNetworks(t) ==
  /\ page' = [page EXCEPT ![t] = NetworksPage(tabUser(t), skill_requests)]
  /\ UNCHANGED <<dbVars, restVars, authVars, adminVars, chatVars, lastWrite, lastInsert, lastRating>>

OpenChat(t, id) ==
  /\ page' = [page EXCEPT ![t] = ChatPage(tabUser(t), id, skill_requests)]
  /\ UNCHANGED <<dbVars, restVars, authVars, adminVars, chatVars, lastWrite, lastInsert, lastRating>>

\* ---------------------------------------------- lifecycle pages: handlers
\* the status write every handler issues: .update({ status: s }).eq('id', id)
StatusWrite(op, uid, id, s) ==
  /\ skill_requests' = SetStatus(uid, id, s)
  /\ lastWrite' = WriteRecord(op, uid, id, s)
  /\ UNCHANGED <<user_roles, profiles, skills, ratings, nextReqId, nextRatingId, nextSkillId,
                 restVars, authVars, adminVars, chatVars, lastInsert, lastRating>>

\* Requests page, Incoming tab: Accept button of a listed request
Requests_handleAcceptRequest(t, id) ==
  /\ page[t].name = "Requests"
  /\ id \in page[t].incomingRequests
  /\ StatusWrite("Requests.handleAcceptRequest", tabUser(t), id, "accepted")
  /\ page' = [page EXCEPT ![t] = IF UpdateError(tabUser(t), id) = "none"
                                 THEN RequestsPage(tabUser(t), skill_requests')
                                 ELSE page[t]]

\* Requests page, Incoming tab: Decline button
Requests_handleRejectRequest(t, id) ==
  /\ page[t].name = "Requests"
  /\ id \in page[t].incomingRequests
  /\ StatusWrite("Requests.handleRejectRequest", tabUser(t), id, "rejected")
  /\ page' = [page EXCEPT ![t] = IF UpdateError(tabUser(t), id) = "none"
                                 THEN RequestsPage(tabUser(t), skill_requests')
                                 ELSE page[t]]

\* Requests page, Outgoing tab: Cancel button, rendered when the listed status is pending
Requests_handleDeleteRequest(t, id) ==
  /\ page[t].name = "Requests"
  /\ [id |-> id, status |-> "pending"] \in page[t].outgoingRequests
  /\ StatusWrite("Requests.handleDeleteRequest", tabUser(t), id, "cancelled")
  /\ page' = [page EXCEPT ![t] = IF UpdateError(tabUser(t), id) = "none"
                                 THEN RequestsPage(tabUser(t), skill_requests')
                                 ELSE page[t]]

\* Requests page, Active tab: Complete button
Requests_handleCompleteSwap(t, id) ==
  /\ page[t].name = "Requests"
  /\ id \in page[t].acceptedSwaps
  /\ StatusWrite("Requests.handleCompleteSwap", tabUser(t), id, "completed")
  /\ page' = [page EXCEPT ![t] = IF UpdateError(tabUser(t), id) = "none"
                                 THEN RequestsPage(tabUser(t), skill_requests')
                                 ELSE page[t]]

\* Dashboard: Accept button of a pending request
Dashboard_handleAcceptRequest(t, id) ==
  /\ page[t].name = "Dashboard"
  /\ id \in page[t].pendingRequests
  /\ StatusWrite("Dashboard.handleAcceptRequest", tabUser(t), id, "accepted")
  /\ page' = [page EXCEPT ![t] = IF UpdateError(tabUser(t), id) = "none"
                                 THEN DashboardPage(tabUser(t), skill_requests')
                                 ELSE page[t]]

\* Dashboard: Decline button
Dashboard_handleDeclineRequest(t, id) ==
  /\ page[t].name = "Dashboard"
  /\ id \in page[t].pendingRequests
  /\ StatusWrite("Dashboard.handleDeclineRequest", tabUser(t), id, "rejected")
  /\ page' = [page EXCEPT ![t] = IF UpdateError(tabUser(t), id) = "none"
                                 THEN DashboardPage(tabUser(t), skill_requests')
                                 ELSE page[t]]

\* Networks: Complete button of a connection
Networks_handleCompleteSwap(t, id) ==
  /\ page[t].name = "Networks"
  /\ id \in page[t].connections
  /\ StatusWrite("Networks.handleCompleteSwap", tabUser(t), id, "completed")
  /\ page' = [page EXCEPT ![t] = IF UpdateError(tabUser(t), id) = "none"
                                 THEN NetworksPage(tabUser(t), skill_requests')
                                 ELSE page[t]]


\* ------------------------------------------------------------ ratings table
\* "Users can view ratings for their requests" (FOR SELECT USING)
RatingsSelectUsing(uid, r) ==
  uid = r.rater_id \/ uid = r.rated_id \/ is_admin(uid)

\* "Users can create ratings for completed requests" (FOR INSERT WITH CHECK)
RatingsInsertCheck(uid, r) == uid = r.rater_id

\* "Users can update their own profile" (FOR UPDATE USING)
ProfilesUpdateUsing(uid, user_id) == uid = user_id \/ is_admin(uid)

RECURSIVE SumRatings(_)
SumRatings(rows) ==
  IF rows = {} THEN 0
  ELSE LET r == CHOOSE x \in rows : TRUE IN r.rating + SumRatings(rows \ {r})

\* COALESCE(AVG(rating), 0.0) stored in a DECIMAL(3,2) column: the mean rounded to two
\* decimals, held here in hundredths
AvgRating100(rows) ==
  IF rows = {} THEN 0
  ELSE (200 * SumRatings(rows) + Cardinality(rows)) \div (2 * Cardinality(rows))

\* COUNT(DISTINCT request_id)
CountDistinctRequests(rows) == Cardinality({r.request_id : r \in rows})

\* update_profile_stats(): the AFTER INSERT trigger body.  The function is not SECURITY
\* DEFINER, so its sub-selects read ratings through the inserting user's SELECT policy
\* and its UPDATE reaches the rated user's profile only through the profiles UPDATE policy.
update_profile_stats(uid, new, allRatings, profs) ==
  LET seen == {r \in allRatings : r.rated_id = new.rated_id /\ RatingsSelectUsing(uid, r)}
  IN  IF new.rated_id \in DOMAIN profs /\ ProfilesUpdateUsing(uid, new.rated_id)
      THEN [profs EXCEPT ![new.rated_id].average_rating = AvgRating100(seen),
                         ![new.rated_id].successful_swaps = CountDistinctRequests(seen)]
      ELSE profs

\* variant: the ratings table without its UNIQUE(request_id, rater_id) constraint
RatingInsertError_noUnique(uid, row) ==
  IF ~RatingsInsertCheck(uid, row) THEN "42501"
  ELSE IF row.rating < 1 \/ row.rating > 5 THEN "23514"
  ELSE IF ~(\E q \in skill_requests : q.id = row.request_id) THEN "23503"
  ELSE "none"

\* the constraints an INSERT into ratings must pass, in the order the store reports them
RatingInsertError(uid, row) ==
  IF ~RatingsInsertCheck(uid, row) THEN "42501"
  ELSE IF row.rating < 1 \/ row.rating > 5 THEN "23514"
  ELSE IF \E r \in ratings : r.request_id = row.request_id /\ r.rater_id = row.rater_id
       THEN "23505"
  ELSE IF ~(\E q \in skill_requests : q.id = row.request_id) THEN "23503"
  ELSE "none"

\* INSERT INTO ratings, then the trigger, in one transaction
InsertRating(uid, row) ==
  LET err == RatingInsertError(uid, row)
      new == [row EXCEPT !.id = nextRatingId]
  IN  /\ lastRating' = [caller |-> uid, row |-> row, inserted |-> (err = "none"), error |-> err]
      /\ IF err = "none"
         THEN /\ ratings' = ratings \cup {new}
              /\ nextRatingId' = nextRatingId + 1
              /\ profiles' = update_profile_stats(uid, new, ratings \cup {new}, profiles)
         ELSE UNCHANGED <<ratings, nextRatingId, profiles>>

\* ----------------------------------------------------------------- Rate page
\* Rate.fetchSkillRequest: the request (under the SELECT policy), the participant
\* check, the already-rated check; each failure leaves for /network
RatePage(uid, id, reqs, rts) ==
  IF /\ \E r \in reqs : r.id = id /\ RequestsSelectUsing(uid, r)
     /\ LET r == CHOOSE x \in reqs : x.id = id
        IN  /\ (r.requester_id = uid \/ r.provider_id = uid)
            /\ ~(\E x \in rts : x.request_id = id /\ x.rater_id = uid)
  THEN [NoPage EXCEPT !.name = "Rate", !.skillRequest = CHOOSE x \in reqs : x.id = id]
  ELSE NetworksPage(uid, reqs)

OpenRate(t, id) ==
  /\ page' = [page EXCEPT ![t] = RatePage(tabUser(t), id, skill_requests, ratings)]
  /\ UNCHANGED <<dbVars, restVars, authVars, adminVars, chatVars, lastWrite, lastInsert, lastRating>>

\* variant: the ternary's branches swapped
partnerId_swapped(uid, req) ==
  IF req.requester_id = uid THEN req.requester_id ELSE req.provider_id

\* submitRating: the partner of the rating user in the loaded request
partnerId(uid, req) ==
  IF req.requester_id = uid THEN req.provider_id ELSE req.requester_id

\* Rate.submitRating with `rating` the star last clicked (the Submit button is disabled
\* while rating is 0); on success the tab goes to /network
submitRating(t, rating) ==
  LET uid == tabUser(t)
      req == page[t].skillRequest
      row == [id |-> 0, request_id |-> req.id, rater_id |-> uid,
              rated_id |-> partnerId(uid, req),
              rating |-> rating]
  IN  /\ page[t].name = "Rate"
      /\ rating # 0
      /\ nextRatingId <= MaxRatings
      /\ InsertRating(uid, row)
      /\ page' = [page EXCEPT ![t] = IF RatingInsertError(uid, row) = "none"
                                     THEN NetworksPage(uid, skill_requests)
                                     ELSE page[t]]
      /\ UNCHANGED <<user_roles, skills, skill_requests, nextReqId, nextSkillId, restVars, authVars, adminVars, chatVars,
                     lastWrite, lastInsert>>

\* Chat: Complete button, rendered when the loaded request's status is accepted; on
\* success the tab goes to /rate/:id
Chat_handleCompleteSwap(t) ==
  /\ page[t].name = "Chat"
  /\ page[t].skillRequest # NoRequest
  /\ page[t].skillRequest.status = "accepted"
  /\ StatusWrite("Chat.handleCompleteSwap", tabUser(t), page[t].skillRequest.id, "completed")
  /\ page' = [page EXCEPT ![t] =
                IF UpdateError(tabUser(t), page[t].skillRequest.id) = "none"
                THEN RatePage(tabUser(t), page[t].skillRequest.id, skill_requests', ratings)
                ELSE page[t]]


\* ------------------------------------------------- skill_requests: INSERT
SkillOwnedBy(sid, uid) == \E k \in skills : k.id = sid /\ k.user_id = uid

\* the constraints an INSERT into skill_requests must pass: the INSERT policy's WITH
\* CHECK and the four foreign keys
RequestInsertError(uid, row) ==
  IF ~RequestsInsertCheck(uid, row) THEN "42501"
  ELSE IF \/ row.requester_id \notin Users
          \/ row.provider_id \notin Users
          \/ ~(\E k \in skills : k.id = row.offered_skill_id)
          \/ ~(\E k \in skills : k.id = row.wanted_skill_id)
       THEN "23503"
  ELSE "none"

InsertRequest(uid, row) ==
  LET err == RequestInsertError(uid, row)
  IN  /\ lastInsert' = [store |-> "skill_requests", caller |-> uid, row |-> row,
                        offeredOwned |-> SkillOwnedBy(row.offered_skill_id, row.requester_id),
                        wantedOwned |-> SkillOwnedBy(row.wanted_skill_id, row.provider_id),
                        inserted |-> (err = "none"), error |-> err]
      /\ IF err = "none"
         THEN /\ skill_requests' = skill_requests \cup {[row EXCEPT !.id = nextReqId]}
              /\ nextReqId' = nextReqId + 1
         ELSE UNCHANGED <<skill_requests, nextReqId>>

\* ------------------------------------------------------- CreateRequest page
OfferedApprovedSkills(uid) ==
  {k.id : k \in {x \in skills : x.user_id = uid /\ x.is_offering /\ x.is_approved}}

\* CreateRequest.fetchData, run by the effect on mount and whenever the :userId route
\* parameter changes; it sets targetUser and the two skill lists and nothing else, so
\* a mounted component keeps its selections
CreateRequestPage(uid, target, prev) ==
  [NoPage EXCEPT
     !.name = "CreateRequest",
     !.targetUser = target,
     !.userSkillsOffered = OfferedApprovedSkills(uid),
     !.targetSkillsOffered = OfferedApprovedSkills(target),
     !.selectedOfferedSkill = prev.selectedOfferedSkill,
     !.selectedWantedSkill = prev.selectedWantedSkill]

\* route /request/:userId
OpenCreateRequest(t, target) ==
  /\ page[t].name = "CreateRequest" => page[t].targetUser # target
  /\ page' = [page EXCEPT ![t] =
                CreateRequestPage(tabUser(t), target,
                                  IF page[t].name = "CreateRequest" THEN page[t] ELSE NoPage)]
  /\ UNCHANGED <<dbVars, restVars, authVars, adminVars, chatVars, lastWrite, lastInsert, lastRating>>

\* the first Select: the items are userSkillsOffered
setSelectedOfferedSkill(t, sid) ==
  /\ page[t].name = "CreateRequest"
  /\ sid \in page[t].userSkillsOffered
  /\ page[t].selectedOfferedSkill # sid
  /\ page' = [page EXCEPT ![t].selectedOfferedSkill = sid]
  /\ UNCHANGED <<dbVars, restVars, authVars, adminVars, chatVars, lastWrite, lastInsert, lastRating>>

\* the second Select: the items are targetSkillsOffered
setSelectedWantedSkill(t, sid) ==
  /\ page[t].name = "CreateRequest"
  /\ sid \in page[t].targetSkillsOffered
  /\ page[t].selectedWantedSkill # sid
  /\ page' = [page EXCEPT ![t].selectedWantedSkill = sid]
  /\ UNCHANGED <<dbVars, restVars, authVars, adminVars, chatVars, lastWrite, lastInsert, lastRating>>

\* CreateRequest.handleSubmitRequest (the Send button is disabled while a selection is
\* missing or a skill list is empty); on success the tab goes to /requests
handleSubmitRequest(t) ==
  LET uid == tabUser(t)
      row == [id |-> 0, requester_id |-> uid, provider_id |-> page[t].targetUser,
              offered_skill_id |-> page[t].selectedOfferedSkill,
              wanted_skill_id |-> page[t].selectedWantedSkill, status |-> "pending"]
  IN  /\ page[t].name = "CreateRequest"
      /\ page[t].selectedOfferedSkill # 0 /\ page[t].selectedWantedSkill # 0
      /\ page[t].userSkillsOffered # {} /\ page[t].targetSkillsOffered # {}
      /\ nextReqId <= MaxReq
      /\ InsertRequest(uid, row)
      /\ page' = [page EXCEPT ![t] = IF RequestInsertError(uid, row) = "none"
                                     THEN RequestsPage(uid, skill_requests')
                                     ELSE page[t]]
      /\ UNCHANGED <<user_roles, profiles, skills, ratings, nextRatingId, nextSkillId, restVars, authVars, adminVars, chatVars,
                     lastWrite, lastRating>>

\* ------------------------------------------------------------ skills: DELETE
\* "Users can delete their own skills" (FOR DELETE USING)
SkillsDeleteUsing(uid, k) == uid = k.user_id \/ is_admin(uid)

\* .delete().eq('id', sid), with the ON DELETE CASCADE of skill_requests.offered_skill_id
\* and wanted_skill_id, and of ratings.request_id and messages.skill_request_id; no
\* trigger runs on a delete
DeleteSkill(uid, sid) ==
  LET gone == {k \in skills : k.id = sid /\ SkillsDeleteUsing(uid, k)}
      goneIds == {k.id : k \in gone}
      goneReqs == {r \in skill_requests :
                     r.offered_skill_id \in goneIds \/ r.wanted_skill_id \in goneIds}
  IN  /\ skills' = skills \ gone
      /\ skill_requests' = skill_requests \ goneReqs
      /\ ratings' = {x \in ratings : x.request_id \notin {r.id : r \in goneReqs}}
      /\ messages' = {m \in messages : m.skill_request_id \notin {r.id : r \in goneReqs}}
      /\ UNCHANGED <<user_roles, profiles, nextReqId, nextRatingId, nextSkillId>>

\* EditProfile.fetchUserData: the user's own skills
EditProfilePage(uid, sk) ==
  [NoPage EXCEPT !.name = "EditProfile", !.skills = {k.id : k \in {x \in sk : x.user_id = uid}}]

OpenEditProfile(t) ==
  /\ page' = [page EXCEPT ![t] = EditProfilePage(tabUser(t), skills)]
  /\ UNCHANGED <<dbVars, restVars, authVars, adminVars, chatVars, lastWrite, lastInsert, lastRating>>

\* "Users can insert their own skills" (FOR INSERT WITH CHECK)
SkillsInsertCheck(uid, k) == uid = k.user_id

MaxSkills == 5

\* variant: the column default of is_approved false
NewSkillRow_unapproved(id, uid, off) ==
  [id |-> id, user_id |-> uid, is_offering |-> off, is_approved |-> FALSE]

\* the row stored for .insert({user_id, title, description, category, is_offering}):
\* the columns that are not given take their defaults, is_approved DEFAULT true
NewSkillRow(id, uid, off) ==
  [id |-> id, user_id |-> uid, is_offering |-> off, is_approved |-> TRUE]

\* EditProfile.addSkill with title and category filled in: the insert, and on success
\* the returned row is appended to the page's skills
addSkill(t, off) ==
  LET uid == tabUser(t)
      row == NewSkillRow(nextSkillId, uid, off)
  IN  /\ page[t].name = "EditProfile"
      /\ nextSkillId <= MaxSkills
      /\ IF SkillsInsertCheck(uid, row)
         THEN /\ skills' = skills \cup {row}
              /\ nextSkillId' = nextSkillId + 1
              /\ page' = [page EXCEPT ![t].skills = page[t].skills \cup {row.id}]
         ELSE UNCHANGED <<skills, nextSkillId, page>>
      /\ UNCHANGED <<user_roles, profiles, skill_requests, ratings, nextReqId, nextRatingId,
                     restVars, authVars, adminVars, chatVars, lastWrite, lastInsert, lastRating>>

\* EditProfile.removeSkill
removeSkill(t, sid) ==
  /\ page[t].name = "EditProfile"
  /\ sid \in page[t].skills
  /\ DeleteSkill(tabUser(t), sid)
  /\ page' = [page EXCEPT ![t].skills = page[t].skills \ {sid}]
  /\ UNCHANGED <<restVars, authVars, adminVars, msgVars, lastWrite, lastInsert, lastRating>>

\* --------------------------------------------- the store's API, called directly
\* an authenticated caller's own UPDATE of skill_requests.status, outside any page
ApiUpdateStatus(uid, id, s) ==
  /\ StatusWrite("api.update", uid, id, s)
  /\ UNCHANGED page

\* an authenticated caller's own INSERT into skill_requests, outside any page
ApiInsertRequest(uid, row) ==
  /\ nextReqId <= MaxReq
  /\ InsertRequest(uid, row)
  /\ UNCHANGED <<user_roles, profiles, skills, ratings, nextRatingId, nextSkillId, restVars, authVars, adminVars, chatVars,
                 page, lastWrite, lastRating>>


\* ------------------------------------------------ REST prototype: swaps
RestCalls == {"c1", "c2"}
SkillNames == {"A", "B"}

\* User.skillsOffered of the REST store's users, by skill name
skillsOffered(u) == CASE u = "u1" -> {"A"} [] u = "u2" -> {"B"} [] OTHER -> {}

IdleCall == [pc |-> "idle", user |-> "none", recipient |-> "none", offeredSkill |-> "none",
             requestedSkill |-> "none", status |-> 0]

\* SwapRequest.findOne({requester, recipient, offeredSkill, requestedSkill, status: 'pending'})
existingSwap(u, recipient, offered, requested) ==
  \E d \in swapRequests : /\ d.requester = u /\ d.recipient = recipient
                          /\ d.offeredSkill = offered /\ d.requestedSkill = requested
                          /\ d.status = "pending"

\* createSwapRequest up to the awaited save: recipient lookup, the two skill checks,
\* the pending-duplicate lookup
createSwapRequest_check(c, u, recipient, offered, requested) ==
  LET code == IF recipient \notin Users THEN 404
              ELSE IF offered \notin skillsOffered(u) THEN 400
              ELSE IF requested \notin skillsOffered(recipient) THEN 400
              ELSE IF existingSwap(u, recipient, offered, requested) THEN 400
              ELSE 0
  IN  /\ restCall[c].pc = "idle"
      /\ nextSwapId + Cardinality({x \in RestCalls : restCall[x].pc = "save"}) <= MaxSwaps
      /\ restCall' = [restCall EXCEPT ![c] =
                        [pc |-> IF code = 0 THEN "save" ELSE "idle", user |-> u,
                         recipient |-> recipient, offeredSkill |-> offered,
                         requestedSkill |-> requested, status |-> code]]
      /\ lastInsert' = IF code = 0 THEN lastInsert
                       ELSE [store |-> "SwapRequest", caller |-> u,
                             row |-> [NoRequest EXCEPT !.requester_id = u, !.provider_id = recipient],
                             offeredOwned |-> offered \in skillsOffered(u),
                             wantedOwned |-> recipient \in Users /\ requested \in skillsOffered(recipient),
                             inserted |-> FALSE, error |-> "http"]
      /\ UNCHANGED <<dbVars, authVars, adminVars, chatVars, acceptVars, page, lastWrite, lastRating,
                     swapRequests, nextSwapId>>

\* createSwapRequest from `new SwapRequest({...})` to the 201 response; status takes
\* the schema default
createSwapRequest_save(c) ==
  LET k == restCall[c]
      doc == [id |-> nextSwapId, requester |-> k.user, recipient |-> k.recipient,
              offeredSkill |-> k.offeredSkill, requestedSkill |-> k.requestedSkill,
              status |-> "pending", chat |-> 0]
  IN  /\ k.pc = "save"
      /\ swapRequests' = swapRequests \cup {doc}
      /\ nextSwapId' = nextSwapId + 1
      /\ restCall' = [restCall EXCEPT ![c] = [k EXCEPT !.pc = "idle", !.status = 201]]
      /\ lastInsert' = [store |-> "SwapRequest", caller |-> k.user,
                        row |-> [NoRequest EXCEPT !.id = nextSwapId, !.requester_id = k.user,
                                                  !.provider_id = k.recipient, !.status = "pending"],
                        offeredOwned |-> k.offeredSkill \in skillsOffered(k.user),
                        wantedOwned |-> k.requestedSkill \in skillsOffered(k.recipient),
                        inserted |-> TRUE, error |-> "none"]
      /\ UNCHANGED <<dbVars, authVars, adminVars, chatVars, acceptVars, page, lastWrite, lastRating>>

\* ------------------------------------------------------ messages: policies
MaxMsg == 2
MaxSubs == 2

NoMessage == [id |-> 0, skill_request_id |-> 0, sender_id |-> "none", created_at |-> 0]

NoChatView == [mounted |-> FALSE, inst |-> 0, requestId |-> 0, loading |-> TRUE, fetching |-> {},
               fetched |-> {},
               messages |-> <<>>]

NoSend == [store |-> "none", caller |-> "none", target |-> 0, party |-> FALSE,
           inserted |-> FALSE, error |-> "none"]

\* the caller is requester or provider of the request with this id
IsParticipant(uid, id) ==
  \E sr \in skill_requests : sr.id = id /\ (sr.requester_id = uid \/ sr.provider_id = uid)

\* "Users can view messages from their conversations" (FOR SELECT USING)
MessagesSelectUsing(uid, m) == m.sender_id = uid \/ IsParticipant(uid, m.skill_request_id)

\* variant: the policy without its EXISTS clause
MessagesInsertCheck_senderOnly(uid, m) == m.sender_id = uid

\* "Users can send messages in their conversations" (FOR INSERT WITH CHECK)
MessagesInsertCheck(uid, m) == m.sender_id = uid /\ IsParticipant(uid, m.skill_request_id)

\* the error of an INSERT into messages: the policy runs before the foreign key
MessageInsertError(uid, m) ==
  IF ~MessagesInsertCheck(uid, m) THEN "42501"
  ELSE IF ~\E sr \in skill_requests : sr.id = m.skill_request_id THEN "23503"
  ELSE "none"

\* the notifications an inserted row produces for one client: one per subscription of
\* the client whose filter skill_request_id=eq.<req> matches and whose user may select
\* the row
Notify(t, m) ==
  LET match(i) == /\ channels[t][i].req = m.skill_request_id
                  /\ MessagesSelectUsing(tabUser(t), m)
  IN  [i \in 1..Len(channels[t]) |->
         IF match(i) THEN <<[msg |-> m, inst |-> channels[t][i].inst]>> ELSE <<>>]

RECURSIVE Flatten(_)
Flatten(ss) == IF ss = <<>> THEN <<>> ELSE Head(ss) \o Flatten(Tail(ss))

\* .insert({skill_request_id, sender_id, content}); id and created_at take their
\* defaults, and the committed row is published to the matching subscriptions
InsertMessage(uid, m) ==
  LET err == MessageInsertError(uid, m)
      new == [m EXCEPT !.id = nextMsgId, !.created_at = dbNow]
  IN  /\ lastSend' = [store |-> "messages", caller |-> uid, target |-> m.skill_request_id,
                      party |-> IsParticipant(uid, m.skill_request_id),
                      inserted |-> err = "none", error |-> err]
      /\ IF err = "none"
         THEN /\ messages' = messages \cup {new}
              /\ nextMsgId' = nextMsgId + 1
              /\ \E d \in {0, 1} : dbNow' = dbNow + d
              /\ inbox' = [t \in Tabs |-> inbox[t] \o Flatten(Notify(t, new))]
         ELSE UNCHANGED <<messages, nextMsgId, dbNow, inbox>>

\* variant: .order('created_at', { ascending: false })
RECURSIVE OrderByCreatedAt_descending(_)
OrderByCreatedAt_descending(rows) ==
  IF rows = {} THEN <<>>
  ELSE LET m == CHOOSE x \in rows : \A y \in rows : x.created_at >= y.created_at
       IN  <<m>> \o OrderByCreatedAt_descending(rows \ {m})

\* .order('created_at', { ascending: true }); rows of equal created_at in any order
RECURSIVE OrderByCreatedAt(_)
OrderByCreatedAt(rows) ==
  IF rows = {} THEN <<>>
  ELSE LET m == CHOOSE x \in rows : \A y \in rows : x.created_at <= y.created_at
       IN  <<m>> \o OrderByCreatedAt(rows \ {m})

\* fetchChatData: from('messages').select('*').eq('skill_request_id', id).order(...)
\* under the SELECT policy
MessagesQuery(uid, id) ==
  OrderByCreatedAt({m \in messages : m.skill_request_id = id /\ MessagesSelectUsing(uid, m)})

\* ------------------------------------------------------ Chat page: the view
\* Chat's effect on [user, requestId, navigate] for a signed-in user: on mount and on
\* every change of a dependency it starts fetchChatData and calls subscribeToMessages,
\* whose returned cleanup it drops; a mount starts loading, with an empty message list
Chat_useEffect(t, id) ==
  LET v == chatView[t]
      inst == IF v.mounted THEN v.inst ELSE v.inst + 1
  IN  /\ Len(channels[t]) < MaxSubs
      /\ chatView' = [chatView EXCEPT ![t] =
                        [mounted |-> TRUE, inst |-> inst, requestId |-> id,
                         loading |-> IF v.mounted THEN v.loading ELSE TRUE,
                         fetching |-> v.fetching \cup {id},
                         fetched |-> v.fetched,
                         messages |-> IF v.mounted THEN v.messages ELSE <<>>]]
      /\ channels' = [channels EXCEPT ![t] = Append(@, [req |-> id, inst |-> inst])]
      /\ page' = [page EXCEPT ![t] = IF v.mounted THEN @ ELSE [NoPage EXCEPT !.name = "Chat"]]
      /\ UNCHANGED <<dbVars, restVars, authVars, adminVars, messages, nextMsgId, dbNow, inbox, lastRead, lastSend,
                     chats, nextChatId, lastWrite, lastInsert, lastRating>>

\* fetchChatData started for request id, at the store: the request query and, when it
\* has found the row, the messages query are answered from the rows stored now
Chat_fetchChatData_query(t, id) ==
  LET v == chatView[t]
      uid == tabUser(t)
      found == \E r \in skill_requests : r.id = id /\ RequestsSelectUsing(uid, r)
      res == [req |-> id, found |-> found,
              page |-> IF found THEN ChatPage(uid, id, skill_requests) ELSE NoPage,
              rows |-> IF found THEN MessagesQuery(uid, id) ELSE <<>>]
  IN  /\ v.mounted
      /\ id \in v.fetching
      /\ chatView' = [chatView EXCEPT ![t] =
                        [v EXCEPT !.fetching = v.fetching \ {id},
                                  !.fetched = v.fetched \cup {res}]]
      /\ UNCHANGED <<dbVars, restVars, authVars, adminVars, messages, nextMsgId, dbNow, channels,
                     inbox, lastRead, lastSend, chats, nextChatId, page, lastWrite, lastInsert,
                     lastRating>>

\* fetchChatData started for request id returns: the request query throws when no row
\* was visible, else setSkillRequest and setMessages(messagesData); finally
\* setLoading(false)
Chat_fetchChatData(t, id) ==
  LET v == chatView[t]
  IN  /\ v.mounted
      /\ \E res \in v.fetched :
           /\ res.req = id
           /\ chatView' = [chatView EXCEPT ![t] =
                             [v EXCEPT !.fetched = v.fetched \ {res},
                                       !.loading = FALSE,
                                       !.messages = IF res.found THEN res.rows ELSE @]]
           /\ page' = [page EXCEPT ![t] = IF res.found THEN res.page ELSE @]
           /\ lastRead' = IF res.found THEN res.rows ELSE lastRead
      /\ UNCHANGED <<dbVars, restVars, authVars, adminVars, messages, nextMsgId, dbNow, channels,
                     inbox, lastSend, chats, nextChatId, lastWrite, lastInsert, lastRating>>

\* the 'postgres_changes' callback of a subscription receives a notification:
\* setMessages(prev => [...prev, payload.new]) on the component that subscribed, which
\* does nothing once that component is unmounted
Chat_onInsert(t) ==
  LET v == chatView[t]
      n == Head(inbox[t])
  IN  /\ inbox[t] # <<>>
      /\ inbox' = [inbox EXCEPT ![t] = Tail(@)]
      /\ chatView' = [chatView EXCEPT ![t] =
                        IF v.mounted /\ n.inst = v.inst
                        THEN [v EXCEPT !.messages = Append(@, n.msg)]
                        ELSE v]
      /\ UNCHANGED <<dbVars, restVars, authVars, adminVars, messages, nextMsgId, dbNow, channels, lastRead,
                     lastSend, chats, nextChatId, page, lastWrite, lastInsert, lastRating>>

\* Chat.sendMessage with a non-blank draft, from the form rendered once loading is
\* false: the row names the route's request and the signed-in user
Chat_sendMessage(t) ==
  /\ chatView[t].mounted
  /\ ~chatView[t].loading
  /\ nextMsgId <= MaxMsg
  /\ InsertMessage(tabUser(t), [NoMessage EXCEPT !.skill_request_id = chatView[t].requestId,
                                                 !.sender_id = tabUser(t)])
  /\ UNCHANGED <<dbVars, restVars, authVars, adminVars, chatView, channels, lastRead, chats, nextChatId, page,
                 lastWrite, lastInsert, lastRating>>

\* an authenticated caller's own INSERT into messages, from a client whose pages are
\* not followed
ApiInsertMessage(uid, id) ==
  /\ nextMsgId <= MaxMsg
  /\ InsertMessage(uid, [NoMessage EXCEPT !.skill_request_id = id, !.sender_id = uid])
  /\ UNCHANGED <<dbVars, restVars, authVars, adminVars, chatView, channels, lastRead, chats, nextChatId, page,
                 lastWrite, lastInsert, lastRating>>

\* the tab leaves /chat/:requestId: the component unmounts; no cleanup was registered,
\* so the client keeps its channels
Chat_unmount(t) ==
  /\ chatView[t].mounted
  /\ chatView' = [chatView EXCEPT ![t] = [NoChatView EXCEPT !.inst = chatView[t].inst]]
  /\ page' = [page EXCEPT ![t] = NoPage]
  /\ UNCHANGED <<dbVars, restVars, authVars, adminVars, messages, nextMsgId, dbNow, channels, inbox, lastRead,
                 lastSend, chats, nextChatId, lastWrite, lastInsert, lastRating>>

\* ------------------------------------------------- REST prototype: chats
AcceptCalls == {"a1", "a2"}

NoSwap == [id |-> 0, requester |-> "none", recipient |-> "none", offeredSkill |-> "none",
           requestedSkill |-> "none", status |-> "none", chat |-> 0]

IdleAccept == [pc |-> "idle", user |-> "none", doc |-> NoSwap, chat |-> 0]

NoAccept == [call |-> "none", caller |-> "none", id |-> 0, code |-> 0, doc |-> NoSwap, chat |-> 0]

\* SwapRequest.findById(req.params.id)
findSwap(id) == IF \E d \in swapRequests : d.id = id
                THEN CHOOSE d \in swapRequests : d.id = id
                ELSE NoSwap

\* acceptSwapRequest's checks on the document it has loaded: 404 without a document,
\* 401 unless the caller is the recipient, 400 unless the status is pending
AcceptCode(u, d) ==
  IF d = NoSwap THEN 404
  ELSE IF d.recipient # u THEN 401
  ELSE IF d.status # "pending" THEN 400
  ELSE 0

\* acceptSwapRequest up to `await chat.save()`: the document is loaded and checked, and
\* a failed check is answered
acceptSwapRequest_find(c, u, id) ==
  LET d == findSwap(id)
      code == AcceptCode(u, d)
  IN  /\ acceptCall[c].pc = "idle"
      /\ nextChatId + Cardinality({x \in AcceptCalls : acceptCall[x].pc = "chatSave"}) <= MaxSwaps
      /\ acceptCall' = [acceptCall EXCEPT ![c] =
                           IF code = 0 THEN [pc |-> "chatSave", user |-> u, doc |-> d, chat |-> 0]
                           ELSE IdleAccept]
      /\ lastAccept' = IF code = 0 THEN lastAccept
                       ELSE [call |-> c, caller |-> u, id |-> id, code |-> code, doc |-> d,
                             chat |-> 0]
      /\ UNCHANGED <<dbVars, authVars, adminVars, swapRequests, nextSwapId, restCall, chatVars,
                     page, lastWrite, lastInsert, lastRating>>

\* `await chat.save()`: the new Chat of the two parties is stored
acceptSwapRequest_chatSave(c) ==
  LET k == acceptCall[c]
  IN  /\ k.pc = "chatSave"
      /\ chats' = chats \cup {[id |-> nextChatId,
                                participants |-> {k.doc.requester, k.doc.recipient},
                                swapId |-> k.doc.id, messages |-> <<>>]}
      /\ nextChatId' = nextChatId + 1
      /\ acceptCall' = [acceptCall EXCEPT ![c] = [k EXCEPT !.pc = "save", !.chat = nextChatId]]
      /\ UNCHANGED <<dbVars, authVars, adminVars, swapRequests, nextSwapId, restCall, lastAccept,
                     messages, nextMsgId, dbNow, chatView, channels, inbox, lastRead, lastSend,
                     page, lastWrite, lastInsert, lastRating>>

\* `await swapRequest.save()` and the response: the two paths the handler has set,
\* status and chat, are written to the stored document
acceptSwapRequest_save(c) ==
  LET k == acceptCall[c]
  IN  /\ k.pc = "save"
      /\ swapRequests' = {IF d.id = k.doc.id
                          THEN [d EXCEPT !.status = "accepted", !.chat = k.chat]
                          ELSE d : d \in swapRequests}
      /\ acceptCall' = [acceptCall EXCEPT ![c] = IdleAccept]
      /\ lastAccept' = [call |-> c, caller |-> k.user, id |-> k.doc.id, code |-> 200,
                        doc |-> k.doc, chat |-> k.chat]
      /\ UNCHANGED <<dbVars, authVars, adminVars, nextSwapId, restCall, chatVars, page,
                     lastWrite, lastInsert, lastRating>>

\* variant: the lookup by _id alone
findChat_byIdOnly(u, id) == {c \in chats : c.id = id}

\* Chat.findOne({ _id: id, participants: u })
findChat(u, id) == {c \in chats : c.id = id /\ u \in c.participants}

\* chat controller, sendMessage: 404 unless the caller's chat is found, else the
\* message is pushed and the chat saved
sendMessage(u, id) ==
  LET found == findChat(u, id)
      c == CHOOSE x \in found : TRUE
  IN  /\ \A x \in chats : Len(x.messages) < MaxMsg
      /\ lastSend' = [store |-> "Chat", caller |-> u, target |-> id,
                      party |-> \E x \in chats : x.id = id /\ u \in x.participants,
                      inserted |-> found # {},
                      error |-> IF found = {} THEN "404" ELSE "none"]
      /\ chats' = IF found = {} THEN chats
                  ELSE (chats \ {c}) \cup {[c EXCEPT !.messages = Append(@, [sender |-> u])]}
      /\ UNCHANGED <<dbVars, authVars, adminVars, acceptVars, swapRequests, nextSwapId, restCall,
                     messages, nextMsgId, dbNow, chatView, channels, inbox, lastRead, nextChatId,
                     page, lastWrite, lastInsert, lastRating>>

\* ------------------------------------------------ useAuth: role resolution
MaxRuns == 2
maxRetries == 5

NoAuth == [session |-> "none", user |-> "none", userRole |-> "none", loading |-> TRUE,
           safetyTimeout |-> TRUE, hpc |-> "idle", fpc |-> "idle", retryCount |-> 0,
           reads |-> 0, timeoutId |-> FALSE, timedOut |-> FALSE, signingOut |-> FALSE,
           signedOut |-> FALSE, runs |-> 0]

NoStorage == [cached_role |-> "none", admin_role |-> FALSE]

\* signUp's options.data.role, kept in the user's metadata: u3 signed up as admin, and
\* u4 will
user_metadata(uid) == IF uid \in {"u3", "u4"} THEN "admin" ELSE "user"

\* "Only admins can manage roles" (FOR ALL USING), applied to a written row
RolesWriteCheck(uid) == is_admin(uid)

\* .upsert({user_id, role: 'admin'}, {onConflict: 'user_id'}): user_roles has
\* UNIQUE(user_id, role) and nothing unique on user_id alone, so the statement's
\* ON CONFLICT (user_id) matches no constraint
UpsertRoleError(uid) == "42P10"

\* .insert([{user_id, role: 'admin'}]) into user_roles
InsertRoleError(uid) ==
  IF ~RolesWriteCheck(uid) THEN "42501"
  ELSE IF [user_id |-> uid, role |-> "admin"] \in user_roles THEN "23505"
  ELSE "none"

\* .from('user_roles').select('role').eq('user_id', uid).maybeSingle() for the session
\* the request carries: "Users can view their own role"; more than one row is an error
RoleRead(session, uid) ==
  LET rows == {r \in user_roles : r.user_id = uid /\ session = uid}
  IN  [error |-> Cardinality(rows) > 1,
       role |-> IF Cardinality(rows) = 1 THEN (CHOOSE r \in rows : TRUE).role ELSE "none"]

\* variant: the timeout resolving to admin
TimeoutRole_admin == "admin"

\* fetchUserRole's timeout callback: resolve('user')
TimeoutRole == "user"

\* the handler's tail once it has a role: cache it, setUserRole, setLoading(false),
\* clearTimeout(safetyTimeout)
Finish(a, ls, role) ==
  [a |-> [a EXCEPT !.userRole = role, !.loading = FALSE, !.safetyTimeout = FALSE,
                   !.hpc = "idle"],
   ls |-> [ls EXCEPT !.cached_role = role]]

\* resolve(role) of fetchUserRole's promise: the awaiting handler continues, unless
\* the promise was settled before
Resolve(a, ls, role) ==
  IF a.hpc = "fetchUserRole" THEN Finish(a, ls, role) ELSE [a |-> a, ls |-> ls]

\* fetchUserRole up to its first await: the timeout is armed, and fetchRole issues the
\* admin-intent read or the first read of the retry loop
StartFetch(a, ls) ==
  [a EXCEPT !.hpc = "fetchUserRole", !.timeoutId = TRUE, !.timedOut = FALSE,
            !.fpc = IF ls.admin_role THEN "intentRead" ELSE "read",
            !.retryCount = 0, !.reads = IF ls.admin_role THEN 0 ELSE 1]

\* the onAuthStateChange callback for a session of uid, up to its first await
onAuthStateChange(a0, ls, uid) ==
  LET a == [a0 EXCEPT !.user = uid, !.runs = @ + 1]
  IN  IF ls.cached_role # "none"
      THEN [a |-> [a EXCEPT !.userRole = ls.cached_role, !.loading = FALSE,
                            !.safetyTimeout = FALSE],
            ls |-> ls]
      ELSE IF ls.admin_role THEN [a |-> [a EXCEPT !.hpc = "upsertIntent"], ls |-> ls]
      ELSE IF user_metadata(uid) = "admin" THEN [a |-> [a EXCEPT !.hpc = "upsertMeta"], ls |-> ls]
      ELSE [a |-> StartFetch(a, ls), ls |-> ls]

SetClient(t, st) ==
  /\ auth' = [auth EXCEPT ![t] = st.a]
  /\ localStorage' = [localStorage EXCEPT ![t] = st.ls]

\* signIn: the session is established and the SIGNED_IN event reaches the callback
signIn(t) ==
  LET a == auth[t]
  IN  /\ tabUser(t) \in auth_users
      /\ a.session = "none" /\ ~a.signingOut
      /\ a.hpc = "idle" /\ a.fpc = "idle"
      /\ a.runs < MaxRuns
      /\ SetClient(t, onAuthStateChange([a EXCEPT !.session = tabUser(t), !.signedOut = FALSE],
                                        localStorage[t], tabUser(t)))
      /\ UNCHANGED <<dbVars, restVars, chatVars, adminVars, page, lastWrite, lastInsert, lastRating>>

\* a page load: AuthProvider mounts with fresh state and arms safetyTimeout; a stored
\* session reaches the callback, and without one getSession() ends the loading
PageLoad(a, ls) ==
  LET fresh == [NoAuth EXCEPT !.session = a.session, !.runs = a.runs, !.signedOut = a.signedOut]
  IN  IF a.session # "none"
      THEN onAuthStateChange(fresh, ls, a.session)
      ELSE [a |-> [fresh EXCEPT !.loading = FALSE, !.safetyTimeout = FALSE], ls |-> ls]

reload(t) ==
  /\ auth[t].runs < MaxRuns
  /\ ~auth[t].signingOut
  /\ SetClient(t, PageLoad(auth[t], localStorage[t]))
  /\ page' = [page EXCEPT ![t] = NoPage]
  /\ UNCHANGED <<dbVars, restVars, chatVars, adminVars, lastWrite, lastInsert, lastRating>>

\* the callback's awaited upsert returns (admin intent, then user metadata); on an
\* error it goes on to the next branch. The callback works on the session.user it was
\* called with, and its requests carry the session the client holds when they are made
AuthProvider_upsert(t) ==
  LET a == auth[t]
      ls == localStorage[t]
      err == UpsertRoleError(a.session)
      done == Finish(a, ls, "admin")
  IN  /\ a.hpc \in {"upsertIntent", "upsertMeta"}
      /\ SetClient(t, IF err = "none"
                      THEN [done EXCEPT !.ls.admin_role =
                                          IF a.hpc = "upsertIntent" THEN FALSE ELSE @]
                      ELSE IF a.hpc = "upsertIntent" /\ user_metadata(tabUser(t)) = "admin"
                      THEN [a |-> [a EXCEPT !.hpc = "upsertMeta"], ls |-> ls]
                      ELSE [a |-> StartFetch(a, ls), ls |-> ls])
      /\ user_roles' = IF err = "none"
                       THEN {r \in user_roles : r.user_id # tabUser(t)}
                              \cup {[user_id |-> tabUser(t), role |-> "admin"]}
                       ELSE user_roles
      /\ UNCHANGED <<profiles, skills, skill_requests, ratings, nextReqId, nextRatingId, nextSkillId,
                     restVars, chatVars, adminVars, page, lastWrite, lastInsert, lastRating>>

\* fetchRole: the admin-intent read returns
fetchRole_intentRead(t) ==
  LET a == auth[t]
      ls == localStorage[t]
  IN  /\ a.fpc = "intentRead"
      /\ \E fail \in BOOLEAN :
           LET rd == RoleRead(a.session, tabUser(t))
           IN  SetClient(t,
                 IF ~fail /\ rd.role = "admin"
                 THEN Resolve([a EXCEPT !.fpc = "idle", !.timeoutId = FALSE],
                              [ls EXCEPT !.admin_role = FALSE], "admin")
                 ELSE IF fail \/ rd.error
                 THEN [a |-> [a EXCEPT !.fpc = "intentInsert"], ls |-> ls]
                 ELSE [a |-> [a EXCEPT !.fpc = "read", !.reads = 1], ls |-> ls])
      /\ UNCHANGED <<dbVars, restVars, chatVars, adminVars, page, lastWrite, lastInsert, lastRating>>

\* fetchRole: the insert of the admin row returns
fetchRole_intentInsert(t) ==
  LET a == auth[t]
      ls == localStorage[t]
      err == InsertRoleError(a.session)
  IN  /\ a.fpc = "intentInsert"
      /\ SetClient(t, IF err = "none"
                      THEN Resolve([a EXCEPT !.fpc = "idle", !.timeoutId = FALSE],
                                   [ls EXCEPT !.admin_role = FALSE], "admin")
                      ELSE [a |-> [a EXCEPT !.fpc = "read", !.reads = 1], ls |-> ls])
      /\ user_roles' = IF err = "none"
                       THEN user_roles \cup {[user_id |-> tabUser(t), role |-> "admin"]}
                       ELSE user_roles
      /\ UNCHANGED <<profiles, skills, skill_requests, ratings, nextReqId, nextRatingId, nextSkillId,
                     restVars, chatVars, adminVars, page, lastWrite, lastInsert, lastRating>>

\* attemptFetch: a read of the retry loop returns; an error is retried after a wait
\* while retryCount < maxRetries, and anything else ends fetchRole with a role
attemptFetch(t) ==
  LET a == auth[t]
      ls == localStorage[t]
      ended == [a EXCEPT !.fpc = "idle", !.timeoutId = FALSE]
  IN  /\ a.fpc = "read"
      /\ \E fail \in BOOLEAN :
           LET rd == RoleRead(a.session, tabUser(t))
           IN  SetClient(t,
                 IF fail \/ rd.error
                 THEN IF a.retryCount < maxRetries
                      THEN [a |-> [a EXCEPT !.retryCount = @ + 1, !.fpc = "wait"], ls |-> ls]
                      ELSE Resolve(ended, ls, "user")
                 ELSE IF rd.role # "none" THEN Resolve(ended, ls, rd.role)
                 ELSE Resolve(ended, ls, "user"))
      /\ UNCHANGED <<dbVars, restVars, chatVars, adminVars, page, lastWrite, lastInsert, lastRating>>

\* attemptFetch: the one-second wait is over and the next read is issued
attemptFetch_retry(t) ==
  /\ auth[t].fpc = "wait"
  /\ auth' = [auth EXCEPT ![t] = [@ EXCEPT !.fpc = "read", !.reads = @ + 1]]
  /\ UNCHANGED <<dbVars, restVars, chatVars, adminVars, localStorage, page, lastWrite, lastInsert,
                 lastRating>>

\* fetchUserRole's timeout fires before fetchRole has cleared it; fetchRole goes on
fetchUserRole_timeout(t) ==
  LET a == auth[t]
  IN  /\ a.timeoutId
      /\ SetClient(t, Resolve([a EXCEPT !.timeoutId = FALSE, !.timedOut = a.hpc = "fetchUserRole"],
                              localStorage[t], TimeoutRole))
      /\ UNCHANGED <<dbVars, restVars, chatVars, adminVars, page, lastWrite, lastInsert, lastRating>>

\* AuthProvider's safetyTimeout fires
safetyTimeout(t) ==
  /\ auth[t].safetyTimeout
  /\ auth' = [auth EXCEPT ![t] = [@ EXCEPT !.safetyTimeout = FALSE, !.loading = FALSE]]
  /\ UNCHANGED <<dbVars, restVars, chatVars, adminVars, localStorage, page, lastWrite, lastInsert,
                 lastRating>>

\* signOut up to its await: the two entries of the signed-in user are removed
signOut(t) ==
  /\ auth[t].user # "none"
  /\ ~auth[t].signingOut
  /\ auth' = [auth EXCEPT ![t] = [@ EXCEPT !.signingOut = TRUE]]
  /\ localStorage' = [localStorage EXCEPT ![t] = NoStorage]
  /\ UNCHANGED <<dbVars, restVars, chatVars, adminVars, page, lastWrite, lastInsert, lastRating>>

\* supabase.auth.signOut() completes: the session is gone and the SIGNED_OUT event
\* reaches the callback, which has no session branch to await in
signOut_done(t) ==
  /\ auth[t].signingOut
  /\ auth' = [auth EXCEPT ![t] = [@ EXCEPT !.signingOut = FALSE, !.signedOut = TRUE,
                                           !.session = "none", !.user = "none",
                                           !.userRole = "none", !.loading = FALSE,
                                           !.safetyTimeout = FALSE]]
  /\ UNCHANGED <<dbVars, restVars, chatVars, adminVars, localStorage, page, lastWrite, lastInsert,
                 lastRating>>

\* Index.debugSetAdminRole, shown to a signed-in user: both entries are set to admin,
\* the upsert is issued and, whatever it returns, the window reloads
debugSetAdminRole(t) ==
  LET a == auth[t]
      err == UpsertRoleError(a.session)
  IN  /\ a.user # "none" /\ a.session # "none"
      /\ ~a.signingOut
      /\ a.runs < MaxRuns
      /\ SetClient(t, PageLoad(a, [cached_role |-> "admin", admin_role |-> TRUE]))
      /\ user_roles' = IF err = "none"
                       THEN {r \in user_roles : r.user_id # a.user}
                              \cup {[user_id |-> a.user, role |-> "admin"]}
                       ELSE user_roles
      /\ page' = [page EXCEPT ![t] = NoPage]
      /\ UNCHANGED <<profiles, skills, skill_requests, ratings, nextReqId, nextRatingId, nextSkillId,
                     restVars, chatVars, adminVars, lastWrite, lastInsert, lastRating>>

\* ---------------------------------------------------------- the Admin page
\* admin messages ever inserted
MaxAdminMsg == 1

NoAdminWrite == [op |-> "none", tab |-> "none", caller |-> "none", user |-> "none", id |-> 0,
                 before |-> FALSE, value |-> FALSE, rows |-> 0, error |-> "none"]

\* "Approved skills are viewable by everyone" (FOR SELECT USING)
SkillsSelectUsing(uid, k) == k.is_approved \/ uid = k.user_id \/ is_admin(uid)

\* "Users can update their own skills" (FOR UPDATE USING)
SkillsUpdateUsing(uid, k) == uid = k.user_id \/ is_admin(uid)

\* "Admin messages are viewable by everyone" and "Only admins can manage messages"
\* (FOR SELECT USING, FOR ALL USING)
AdminMessagesSelectUsing(uid, m) == m.is_active \/ is_admin(uid)

\* "Only admins can manage messages" (FOR ALL USING), for UPDATE and, as the check of
\* the written row, for INSERT
AdminMessagesWriteUsing(uid) == is_admin(uid)

\* Admin.fetchAdminData for the session uid: the profiles (is_public keeps its default,
\* so every profile is returned), the skills and the admin messages the SELECT policies
\* return, and the lists the page derives from them
AdminPage(uid, profs, sk, msgs) ==
  LET seenSkills == {k \in sk : SkillsSelectUsing(uid, k)}
      seenMsgs == {m \in msgs : AdminMessagesSelectUsing(uid, m)}
  IN  [NoPage EXCEPT !.name = "Admin",
                     !.profiles = DOMAIN profs,
                     !.bannedUsers = {u \in DOMAIN profs : profs[u].is_banned},
                     !.skills = {k.id : k \in seenSkills},
                     !.unapprovedSkills = {k.id : k \in {x \in seenSkills : ~x.is_approved}},
                     !.adminMessages = {[id |-> m.id, is_active |-> m.is_active] : m \in seenMsgs}]

\* Admin's effect: without a user to /auth, without isAdmin to /dashboard, else the
\* admin panel loads its data
Admin_useEffect(t) ==
  LET a == auth[t]
  IN  /\ page' = [page EXCEPT ![t] =
                    IF a.user = "none" THEN [NoPage EXCEPT !.name = "Auth"]
                    ELSE IF a.userRole # "admin" THEN DashboardPage(a.user, skill_requests)
                    ELSE AdminPage(a.session, profiles, skills, admin_messages)]
      /\ UNCHANGED <<dbVars, restVars, chatVars, authVars, adminVars, lastWrite, lastInsert, lastRating>>

\* variant: the update without its .eq('user_id', u) filter
SetBanned_everyRow(uid, u, b) ==
  [v \in DOMAIN profiles |->
     IF ProfilesUpdateUsing(uid, v) THEN [profiles[v] EXCEPT !.is_banned = b] ELSE profiles[v]]

\* .update({is_banned}).eq('user_id', u) on profiles: a row the UPDATE policy filters
\* out is skipped without an error
SetBanned(uid, u, b) ==
  IF u \in DOMAIN profiles /\ ProfilesUpdateUsing(uid, u)
  THEN [profiles EXCEPT ![u].is_banned = b]
  ELSE profiles

\* Admin.handleBanUser and handleUnbanUser, from the page's user list: the update, then
\* fetchAdminData
BanWrite(t, op, u, b) ==
  LET uid == auth[t].session
  IN  /\ page[t].name = "Admin"
      /\ u \in page[t].profiles
      /\ profiles' = SetBanned(uid, u, b)
      /\ lastAdmin' = [op |-> op, tab |-> t, caller |-> uid, user |-> u, id |-> 0,
                       before |-> u \in DOMAIN profiles /\ profiles[u].is_banned, value |-> b,
                       rows |-> IF u \in DOMAIN profiles /\ ProfilesUpdateUsing(uid, u) THEN 1 ELSE 0,
                       error |-> "none"]
      /\ page' = [page EXCEPT ![t] = AdminPage(uid, profiles', skills, admin_messages)]
      /\ UNCHANGED <<user_roles, skills, skill_requests, ratings, nextReqId, nextRatingId, nextSkillId,
                     restVars, chatVars, authVars, auth_users, admin_messages, nextAdminMsgId,
                     lastWrite, lastInsert, lastRating>>

handleBanUser(t, u) == u \notin page[t].bannedUsers /\ BanWrite(t, "ban", u, TRUE)

handleUnbanUser(t, u) == u \in page[t].bannedUsers /\ BanWrite(t, "unban", u, FALSE)

\* Admin.handleApproveSkill, from the list of unapproved skills
handleApproveSkill(t, sid) ==
  LET uid == auth[t].session
      hit == {k \in skills : k.id = sid /\ SkillsUpdateUsing(uid, k)}
  IN  /\ page[t].name = "Admin"
      /\ sid \in page[t].unapprovedSkills
      /\ skills' = {IF k \in hit THEN [k EXCEPT !.is_approved = TRUE] ELSE k : k \in skills}
      /\ lastAdmin' = [op |-> "approve", tab |-> t, caller |-> uid, user |-> "none", id |-> sid,
                       before |-> \E k \in skills : k.id = sid /\ k.is_approved, value |-> TRUE, rows |-> Cardinality(hit), error |-> "none"]
      /\ page' = [page EXCEPT ![t] = AdminPage(uid, profiles, skills', admin_messages)]
      /\ UNCHANGED <<user_roles, profiles, skill_requests, ratings, nextReqId, nextRatingId, nextSkillId,
                     restVars, chatVars, authVars, auth_users, admin_messages, nextAdminMsgId,
                     lastWrite, lastInsert, lastRating>>

\* Admin.handleRejectSkill, from the list of unapproved skills: the delete, then
\* fetchAdminData
handleRejectSkill(t, sid) ==
  LET uid == auth[t].session
  IN  /\ page[t].name = "Admin"
      /\ sid \in page[t].unapprovedSkills
      /\ DeleteSkill(uid, sid)
      /\ lastAdmin' = [op |-> "reject", tab |-> t, caller |-> uid, user |-> "none", id |-> sid,
                       before |-> \E k \in skills : k.id = sid /\ k.is_approved, value |-> FALSE,
                       rows |-> Cardinality({k \in skills : k.id = sid /\ SkillsDeleteUsing(uid, k)}),
                       error |-> "none"]
      /\ page' = [page EXCEPT ![t] = AdminPage(uid, profiles, skills', admin_messages)]
      /\ UNCHANGED <<restVars, msgVars, authVars, auth_users, admin_messages, nextAdminMsgId,
                     lastWrite, lastInsert, lastRating>>

\* Admin.handleSendMessage with both fields filled in: the insert with is_active true
handleSendMessage(t) ==
  LET uid == auth[t].session
      err == IF AdminMessagesWriteUsing(uid) THEN "none" ELSE "42501"
      row == [id |-> nextAdminMsgId, admin_id |-> uid, is_active |-> TRUE]
  IN  /\ page[t].name = "Admin"
      /\ auth[t].user # "none"
      /\ nextAdminMsgId <= MaxAdminMsg
      /\ admin_messages' = IF err = "none" THEN admin_messages \cup {row} ELSE admin_messages
      /\ nextAdminMsgId' = IF err = "none" THEN nextAdminMsgId + 1 ELSE nextAdminMsgId
      /\ lastAdmin' = [op |-> "send", tab |-> t, caller |-> uid, user |-> "none", id |-> nextAdminMsgId,
                       before |-> FALSE, value |-> TRUE, rows |-> IF err = "none" THEN 1 ELSE 0, error |-> err]
      /\ page' = [page EXCEPT ![t] =
                    IF err = "none" THEN AdminPage(uid, profiles, skills, admin_messages')
                    ELSE page[t]]
      /\ UNCHANGED <<dbVars, restVars, chatVars, authVars, auth_users, lastWrite, lastInsert,
                     lastRating>>

\* variant: a toggle that writes only while the stored flag is the one the page shows
ToggleTargets_ifShown(uid, m) ==
  {x \in admin_messages : x.id = m.id /\ AdminMessagesWriteUsing(uid)
                            /\ x.is_active = m.is_active}

\* .update({is_active: !isActive}).eq('id', messageId): the rows the statement touches
ToggleTargets(uid, m) ==
  {x \in admin_messages : x.id = m.id /\ AdminMessagesWriteUsing(uid)}

\* Admin.handleToggleMessage(message.id, message.is_active) for a message of the
\* page's list: the update to the negation of the listed flag, then fetchAdminData
handleToggleMessage(t, m) ==
  LET uid == auth[t].session
      hit == ToggleTargets(uid, m)
  IN  /\ page[t].name = "Admin"
      /\ m \in page[t].adminMessages
      /\ admin_messages' = {IF x \in hit THEN [x EXCEPT !.is_active = ~m.is_active] ELSE x :
                              x \in admin_messages}
      /\ lastAdmin' = [op |-> "toggle", tab |-> t, caller |-> uid, user |-> "none", id |-> m.id,
                       before |-> \E x \in admin_messages : x.id = m.id /\ x.is_active,
                       value |-> ~m.is_active, rows |-> Cardinality(hit), error |-> "none"]
      /\ page' = [page EXCEPT ![t] = AdminPage(uid, profiles, skills, admin_messages')]
      /\ UNCHANGED <<dbVars, restVars, chatVars, authVars, auth_users, nextAdminMsgId,
                     lastWrite, lastInsert, lastRating>>

\* an authenticated owner's own UPDATE of skills.is_approved, outside any page
ApiUpdateSkill(uid, sid, b) ==
  LET hit == {k \in skills : k.id = sid /\ SkillsUpdateUsing(uid, k)}
  IN  /\ skills' = {IF k \in hit THEN [k EXCEPT !.is_approved = b] ELSE k : k \in skills}
      /\ UNCHANGED <<user_roles, profiles, skill_requests, ratings, nextReqId, nextRatingId, nextSkillId,
                     restVars, chatVars, authVars, adminVars, page, lastWrite, lastInsert,
                     lastRating>>

\* ------------------------------------------------------------------ signup
\* variant: a trigger that inserts the column default and, for an admin signup, the
\* admin row as well
handle_new_user_bothRoles(uid) ==
  {[user_id |-> uid, role |-> "user"]}
    \cup (IF user_metadata(uid) = "admin" THEN {[user_id |-> uid, role |-> "admin"]} ELSE {})

\* on_auth_user_created -> handle_new_user: the user_roles row the trigger inserts for
\* the new auth.users row, admin when raw_user_meta_data says so
handle_new_user(uid) ==
  {[user_id |-> uid, role |-> IF user_metadata(uid) = "admin" THEN "admin" ELSE "user"]}

\* signUp: auth.signUp creates the user, and the trigger its profile and role row; where
\* no email confirmation is asked for, the call also opens a session and the SIGNED_IN
\* event reaches the callback before signUp goes on. For an admin signup the intent is
\* then stored and the role upsert issued, whose error is only logged
signUp(t) ==
  LET uid == tabUser(t)
      a == auth[t]
      role == user_metadata(uid)
      created == user_roles \cup handle_new_user(uid)
      err == IF role = "admin" THEN UpsertRoleError(uid) ELSE "skipped"
  IN  /\ uid \notin auth_users
      /\ a.session = "none" /\ ~a.signingOut
      /\ a.hpc = "idle" /\ a.fpc = "idle"
      /\ a.runs < MaxRuns
      /\ auth_users' = auth_users \cup {uid}
      /\ profiles' = [u \in DOMAIN profiles \cup {uid} |->
                        IF u = uid
                        THEN [average_rating |-> 0, successful_swaps |-> 0, is_banned |-> FALSE]
                        ELSE profiles[u]]
      /\ user_roles' = IF err = "none"
                       THEN {r \in created : r.user_id # uid}
                              \cup {[user_id |-> uid, role |-> "admin"]}
                       ELSE created
      /\ \E confirm \in BOOLEAN :
           LET st == IF confirm THEN [a |-> a, ls |-> localStorage[t]]
                     ELSE onAuthStateChange([a EXCEPT !.session = uid, !.signedOut = FALSE],
                                            localStorage[t], uid)
           IN  SetClient(t, [st EXCEPT !.ls.admin_role = IF role = "admin" THEN TRUE ELSE @])
      /\ UNCHANGED <<skills, skill_requests, ratings, nextReqId, nextRatingId, nextSkillId, restVars,
                     chatVars, admin_messages, nextAdminMsgId, lastAdmin, page, lastWrite,
                     lastInsert, lastRating>>

\* fixAdminRole(user.id), the Admin page's "Fix Admin Role" button: the role is read, an
\* admin row is cached and set, and anything else is followed by the upsert
fixAdminRole(t) ==
  LET a == auth[t]
      ls == localStorage[t]
      err == UpsertRoleError(a.session)
      admin == [a |-> [a EXCEPT !.userRole = "admin"], ls |-> [ls EXCEPT !.cached_role = "admin"]]
  IN  /\ page[t].name = "Admin"
      /\ a.user # "none"
      /\ \E fail \in BOOLEAN :
           LET rd == RoleRead(a.session, a.user)
           IN  SetClient(t, IF ~fail /\ rd.role = "admin" THEN admin
                            ELSE IF err = "none" THEN admin
                            ELSE [a |-> a, ls |-> ls])
      /\ user_roles' = IF is_admin(a.user) \/ err # "none" THEN user_roles
                       ELSE {r \in user_roles : r.user_id # a.user}
                              \cup {[user_id |-> a.user, role |-> "admin"]}
      /\ UNCHANGED <<profiles, skills, skill_requests, ratings, nextReqId, nextRatingId, nextSkillId,
                     restVars, chatVars, adminVars, page, lastWrite, lastInsert, lastRating>>

\* clearRoleCache(user.id), the Admin page's "Clear Role Cache" button
clearRoleCache(t) ==
  /\ page[t].name = "Admin"
  /\ auth[t].user # "none"
  /\ localStorage' = [localStorage EXCEPT ![t] = NoStorage]
  /\ UNCHANGED <<dbVars, restVars, chatVars, adminVars, auth, page, lastWrite, lastInsert,
                 lastRating>>

\* -------------------------------------------------------------------- Init
\* three signed-up users (the signup trigger has given each a profile and a role row;
\* u3 signed up as admin, in the browser of tab t3, where signUp left its admin
\* intent), each with one offered skill; no client holds a session
Init ==
  /\ user_roles = {[user_id |-> "u1", role |-> "user"], [user_id |-> "u2", role |-> "user"],
                   [user_id |-> "u3", role |-> "admin"]}
  /\ profiles = [u \in Users |-> [average_rating |-> 0, successful_swaps |-> 0, is_banned |-> FALSE]]
  /\ skills = {[id |-> 1, user_id |-> "u1", is_offering |-> TRUE, is_approved |-> TRUE],
               [id |-> 2, user_id |-> "u2", is_offering |-> TRUE, is_approved |-> TRUE],
               [id |-> 3, user_id |-> "u3", is_offering |-> TRUE, is_approved |-> TRUE]}
  /\ skill_requests = {}
  /\ ratings = {}
  /\ nextReqId = 1
  /\ nextRatingId = 1
  /\ nextSkillId = 4
  /\ page = [t \in Tabs |-> NoPage]
  /\ lastWrite = NoWrite
  /\ lastInsert = NoInsert
  /\ lastRating = NoRatingInsert
  /\ swapRequests = {}
  /\ nextSwapId = 1
  /\ restCall = [c \in RestCalls |-> IdleCall]
  /\ messages = {}
  /\ nextMsgId = 1
  /\ dbNow = 1
  /\ chatView = [t \in Tabs |-> NoChatView]
  /\ channels = [t \in Tabs |-> <<>>]
  /\ inbox = [t \in Tabs |-> <<>>]
  /\ lastRead = <<>>
  /\ lastSend = NoSend
  /\ chats = {}
  /\ nextChatId = 1
  /\ auth = [t \in Tabs |-> [NoAuth EXCEPT !.loading = FALSE, !.safetyTimeout = FALSE]]
  /\ localStorage = [t \in Tabs |-> [NoStorage EXCEPT !.admin_role = t = "t3"]]
  /\ auth_users = Users
  /\ admin_messages = {}
  /\ nextAdminMsgId = 1
  /\ lastAdmin = NoAdminWrite
  /\ acceptCall = [c \in AcceptCalls |-> IdleAccept]
  /\ lastAccept = NoAccept

\* ------------------------------------------------------------ specifications
ReqIds == 1..MaxReq

\* the CreateRequest page in the tabs T, aimed at the users U
CreatePageNext(T, U) ==
  \E t \in T :
    \/ \E u \in U : OpenCreateRequest(t, u)
    \/ \E k \in 1..3 : setSelectedOfferedSkill(t, k)
    \/ \E k \in 1..3 : setSelectedWantedSkill(t, k)
    \/ handleSubmitRequest(t)

\* the request lifecycle as the client's pages drive it: u1 and u2, one tab each,
\* u1 asking u2
LifecycleTabs == {"t1", "t2"}

LifecycleNext ==
  \/ CreatePageNext({"t1"}, {"u2"})
  \/ \E t \in LifecycleTabs :
       \/ OpenRequests(t)
       \/ OpenDashboard(t)
       \/ OpenNetworks(t)
       \/ \E id \in ReqIds : OpenChat(t, id)
       \/ \E id \in ReqIds : Requests_handleAcceptRequest(t, id)
       \/ \E id \in ReqIds : Requests_handleRejectRequest(t, id)
       \/ \E id \in ReqIds : Requests_handleDeleteRequest(t, id)
       \/ \E id \in ReqIds : Requests_handleCompleteSwap(t, id)
       \/ \E id \in ReqIds : Dashboard_handleAcceptRequest(t, id)
       \/ \E id \in ReqIds : Dashboard_handleDeclineRequest(t, id)
       \/ \E id \in ReqIds : Networks_handleCompleteSwap(t, id)
       \/ Chat_handleCompleteSwap(t)

SpecLifecycle == Init /\ [][LifecycleNext]_vars

\* request creation through the CreateRequest page against skill_requests
CreateNext == CreatePageNext({"t1", "t2"}, Users)

SpecCreate == Init /\ [][CreateNext]_vars

\* request creation through the REST handler against its own collection
RestNext ==
  \/ \E c \in RestCalls, u \in Users, recipient \in Users \cup {"nobody"},
        offered \in SkillNames, requested \in SkillNames :
       createSwapRequest_check(c, u, recipient, offered, requested)
  \/ \E c \in RestCalls : createSwapRequest_save(c)

SpecRest == Init /\ [][RestNext]_vars

\* the store under its policies, whatever authenticated caller writes to it
StoreNext ==
  \/ \E uid \in Users, requester \in Users, provider \in Users :
       \E o \in OfferedApprovedSkills(requester), w \in OfferedApprovedSkills(provider) :
         ApiInsertRequest(uid, [id |-> 0, requester_id |-> requester, provider_id |-> provider,
                                offered_skill_id |-> o, wanted_skill_id |-> w,
                                status |-> "pending"])
  \/ \E uid \in Users, id \in ReqIds, s \in request_status : ApiUpdateStatus(uid, id, s)

SpecStore == Init /\ [][StoreNext]_vars

\* rating: one request is created through the CreateRequest page and rated through the
\* Rate page, and skills are removed through EditProfile
RatingTabs == {"t1", "t2", "t3", "t4"}

RatingNext ==
  \/ nextReqId = 1 /\ CreatePageNext({"t1"}, {"u3"})
  \/ \E t \in RatingTabs :
       \/ \E id \in ReqIds : OpenRate(t, id)
       \/ \E v \in RatingValues : submitRating(t, v)
  \/ \E t \in {"t1"} :
       \/ OpenEditProfile(t)
       \/ \E k \in 1..3 : removeSkill(t, k)

SpecRating == Init /\ [][RatingNext]_vars

\* chat: u1's requests to u2 are inserted; u1 has a tab that opens, uses and leaves the
\* Chat page, and u2 sends from a client of its own
ChatTabs == {"t1"}

ChatNext ==
  \/ ApiInsertRequest("u1", [id |-> 0, requester_id |-> "u1", provider_id |-> "u2",
                             offered_skill_id |-> 1, wanted_skill_id |-> 2,
                             status |-> "pending"])
  \/ \E t \in ChatTabs :
       \/ \E id \in ReqIds : Chat_useEffect(t, id)
       \/ \E id \in ReqIds : Chat_fetchChatData_query(t, id)
       \/ \E id \in ReqIds : Chat_fetchChatData(t, id)
       \/ Chat_onInsert(t)
       \/ Chat_sendMessage(t)
       \/ Chat_unmount(t)
  \/ \E id \in ReqIds : ApiInsertMessage("u2", id)

SpecChat == Init /\ [][ChatNext]_vars

\* reading a conversation: u1's Chat page of request 1 fetches what u2 has sent
ReadNext ==
  \/ /\ skill_requests = {}
     /\ ApiInsertRequest("u1", [id |-> 0, requester_id |-> "u1", provider_id |-> "u2",
                                offered_skill_id |-> 1, wanted_skill_id |-> 2,
                                status |-> "pending"])
  \/ Chat_useEffect("t1", 1)
  \/ Chat_fetchChatData_query("t1", 1)
  \/ Chat_fetchChatData("t1", 1)
  \/ ApiInsertMessage("u2", 1)

SpecRead == Init /\ [][ReadNext]_vars

\* one open conversation: u1 opens the Chat page of request 1 once and keeps it open;
\* u2 sends after the page has subscribed
OpenChatNext ==
  \/ /\ skill_requests = {}
     /\ ApiInsertRequest("u1", [id |-> 0, requester_id |-> "u1", provider_id |-> "u2",
                                offered_skill_id |-> 1, wanted_skill_id |-> 2,
                                status |-> "pending"])
  \/ channels["t1"] = <<>> /\ Chat_useEffect("t1", 1)
  \/ Chat_fetchChatData_query("t1", 1)
  \/ Chat_fetchChatData("t1", 1)
  \/ Chat_onInsert("t1")
  \/ Chat_sendMessage("t1")
  \/ channels["t1"] # <<>> /\ ApiInsertMessage("u2", 1)

\* the store answers a query it has received, the client runs the continuation of an
\* answered await and the callback of a delivered notification
SpecOpenChat ==
  /\ Init /\ [][OpenChatNext]_vars
  /\ WF_vars(Chat_fetchChatData_query("t1", 1))
  /\ WF_vars(Chat_fetchChatData("t1", 1))
  /\ WF_vars(Chat_onInsert("t1"))

\* sending in both stores: the Chat page of request 1, opened once by u1 and once by
\* the admin u3, who is no party to u1's request; the REST chat of u1's one swap with
\* u2, where u2 and u3 try to accept and u1 and u3 to send
SendTabs == {"t1", "t3"}

SendNext ==
  \/ /\ skill_requests = {}
     /\ ApiInsertRequest("u1", [id |-> 0, requester_id |-> "u1", provider_id |-> "u2",
                                offered_skill_id |-> 1, wanted_skill_id |-> 2,
                                status |-> "pending"])
  \/ \E t \in SendTabs :
       \/ channels[t] = <<>> /\ Chat_useEffect(t, 1)
       \/ Chat_fetchChatData_query(t, 1)
       \/ Chat_fetchChatData(t, 1)
       \/ Chat_sendMessage(t)
  \/ swapRequests = {} /\ createSwapRequest_check("c1", "u1", "u2", "A", "B")
  \/ createSwapRequest_save("c1")
  \/ \E u \in {"u2", "u3"} : acceptSwapRequest_find("a1", u, 1)
  \/ acceptSwapRequest_chatSave("a1")
  \/ acceptSwapRequest_save("a1")
  \/ \E u \in {"u1", "u3"} : sendMessage(u, 1)

SpecSend == Init /\ [][SendNext]_vars

\* the steps of a client that no user input starts: the returns of the awaited calls
\* and the timers
AuthSteps(t) ==
  \/ AuthProvider_upsert(t)
  \/ fetchRole_intentRead(t)
  \/ fetchRole_intentInsert(t)
  \/ attemptFetch(t)
  \/ attemptFetch_retry(t)
  \/ fetchUserRole_timeout(t)
  \/ safetyTimeout(t)
  \/ signOut_done(t)

\* the steps of a role resolution that a sign-in starts
SignInSteps(t) ==
  \/ AuthProvider_upsert(t)
  \/ fetchRole_intentRead(t)
  \/ fetchRole_intentInsert(t)
  \/ attemptFetch(t)
  \/ attemptFetch_retry(t)
  \/ fetchUserRole_timeout(t)

\* what the user of a client does: sign in and out, reload, the debug button, /admin
AuthInputs(t) ==
  \/ signIn(t)
  \/ signOut(t)
  \/ reload(t)
  \/ debugSetAdminRole(t)
  \/ Admin_useEffect(t)

\* the session and role of the admin u3 in the browser it signed up in
AuthNext == AuthInputs("t3") \/ AuthSteps("t3")

SpecAuth == Init /\ [][AuthNext]_vars

\* the session and role of u1, who has no admin intent stored and no admin metadata, so
\* that its callback never awaits an upsert and its fetchRole starts at the retry loop
UserAuthNext ==
  \/ AuthInputs("t1")
  \/ attemptFetch("t1")
  \/ attemptFetch_retry("t1")
  \/ fetchUserRole_timeout("t1")
  \/ safetyTimeout("t1")
  \/ signOut_done("t1")

SpecUserAuth == Init /\ [][UserAuthNext]_vars

\* u3's client where every page load finds a stored session, so that a resolution cut
\* short by a reload is started again by it: every awaited call returns and every
\* armed timer fires
AuthLiveNext ==
  \/ signIn("t3")
  \/ signOut("t3")
  \/ (auth["t3"].session # "none" /\ reload("t3"))
  \/ AuthSteps("t3")

SpecAuthLive == Init /\ [][AuthLiveNext]_vars /\ WF_vars(AuthSteps("t3"))

\* signups and every way the client writes user_roles: u4 signs up as admin and u5 as
\* user, each in its own browser
RolesNext ==
  \/ signUp("t5") \/ AuthInputs("t5") \/ AuthSteps("t5")
  \/ fixAdminRole("t5") \/ clearRoleCache("t5")
  \/ signUp("t6") \/ attemptFetch("t6") \/ debugSetAdminRole("t6")

SpecRoles == Init /\ [][RolesNext]_vars

\* moderating skills: u1 asks u2 for a swap of their skills, the owners un-approve
\* their skills through the store's API, and the admin u3 signs in, opens the admin
\* panel and approves or rejects what it lists
ModerationNext ==
  \/ ApiInsertRequest("u1", [id |-> 0, requester_id |-> "u1", provider_id |-> "u2",
                             offered_skill_id |-> 1, wanted_skill_id |-> 2,
                             status |-> "pending"])
  \/ \E sid \in {1, 2} : ApiUpdateSkill(IF sid = 1 THEN "u1" ELSE "u2", sid, FALSE)
  \/ signIn("t3") \/ SignInSteps("t3") \/ Admin_useEffect("t3")
  \/ \E sid \in {1, 2} : handleApproveSkill("t3", sid) \/ handleRejectSkill("t3", sid)

SpecModeration == Init /\ [][ModerationNext]_vars

\* the skills as the client writes them: u1 adds and removes skills on the profile
\* page, u1 asks u2 for a swap, and the admin u3 signs in and opens the admin panel
SkillsNext ==
  \/ OpenEditProfile("t1")
  \/ \E off \in BOOLEAN : addSkill("t1", off)
  \/ \E sid \in 1..MaxSkills : removeSkill("t1", sid)
  \/ /\ skill_requests = {}
     /\ ApiInsertRequest("u1", [id |-> 0, requester_id |-> "u1", provider_id |-> "u2",
                                offered_skill_id |-> 1, wanted_skill_id |-> 2,
                                status |-> "pending"])
  \/ signIn("t3") \/ SignInSteps("t3") \/ Admin_useEffect("t3")

SpecSkills == Init /\ [][SkillsNext]_vars

\* the admin messages: u3 is signed in on two tabs, sends a message from one and
\* toggles it from both
AdminTabs == {"t3", "t7"}

ToggleNext ==
  \/ \E t \in AdminTabs : signIn(t) \/ SignInSteps(t) \/ Admin_useEffect(t)
  \/ handleSendMessage("t3")
  \/ \E t \in AdminTabs, id \in 1..MaxAdminMsg, b \in BOOLEAN :
       handleToggleMessage(t, [id |-> id, is_active |-> b])

SpecToggle == Init /\ [][ToggleNext]_vars

\* banning: u2 is signed in, is the provider of u1's request, has sent a message in it
\* and has been rated by u1; the admin u3 signs in, opens the admin panel and bans and
\* unbans u1 and u2
BanNext ==
  \/ /\ skill_requests = {}
     /\ ApiInsertRequest("u1", [id |-> 0, requester_id |-> "u1", provider_id |-> "u2",
                                offered_skill_id |-> 1, wanted_skill_id |-> 2,
                                status |-> "pending"])
  \/ ApiInsertMessage("u2", 1)
  \/ OpenRate("t1", 1) \/ submitRating("t1", 5)
  \/ signIn("t2") \/ attemptFetch("t2")
  \/ signIn("t3") \/ SignInSteps("t3") \/ Admin_useEffect("t3")
  \/ \E u \in {"u1", "u2"} : handleBanUser("t3", u) \/ handleUnbanUser("t3", u)

SpecBan == Init /\ [][BanNext]_vars

\* accepting through the REST handler: u1 has proposed one swap to u2, and any user
\* calls accept, for that swap or for an id that names none, two calls at a time
AcceptNext ==
  \/ swapRequests = {} /\ createSwapRequest_check("c1", "u1", "u2", "A", "B")
  \/ createSwapRequest_save("c1")
  \/ \E c \in AcceptCalls, u \in Users, id \in 1..MaxSwaps : acceptSwapRequest_find(c, u, id)
  \/ \E c \in AcceptCalls : acceptSwapRequest_chatSave(c) \/ acceptSwapRequest_save(c)

SpecAccept == Init /\ [][AcceptNext]_vars

Next == LifecycleNext \/ CreateNext \/ RestNext \/ StoreNext \/ RatingNext \/ ChatNext
          \/ SendNext \/ ReadNext \/ AuthNext \/ UserAuthNext \/ RolesNext
          \/ ModerationNext \/ ToggleNext \/ BanNext \/ AcceptNext \/ OpenChatNext
          \/ SkillsNext

Spec == Init /\ [][Next]_vars

\* ---------------------------------------------------------------- properties
\* the spec's status transitions
AllowedTransitions ==
  {<<"pending", "accepted">>, <<"pending", "rejected">>, <<"pending", "cancelled">>,
   <<"accepted", "completed">>}

\* C1: every change of a request's status made through the client's pages is one of
\* pending->accepted, pending->rejected, pending->cancelled, accepted->completed; so a
\* completed, rejected or cancelled request never changes status again.
C1_OnlyLifecycleTransitions ==
  [][\A r \in skill_requests : \A q \in skill_requests' :
       (q.id = r.id /\ q.status # r.status) => <<r.status, q.status>> \in AllowedTransitions]_vars

\* C2: a status write of accepted or rejected that changes the row was issued by the
\* row's provider; in particular the requester's write of accepted or rejected changes
\* nothing.  (Stated for callers who are not admins, whom the UPDATE policy names
\* separately.)
C2_AcceptRejectOnlyByProvider ==
  (/\ lastWrite.value \in {"accepted", "rejected"}
   /\ lastWrite.rows > 0
   /\ lastWrite.before.status # lastWrite.value
   /\ ~is_admin(lastWrite.caller))
  => lastWrite.caller = lastWrite.before.provider_id

\* C3: a status write of cancelled that changes the row was issued by the row's
\* requester while the stored status was pending, whatever the requester's Requests
\* view showed when the Cancel button was pressed.
C3_CancelOnlyPendingByRequester ==
  (/\ lastWrite.value = "cancelled"
   /\ lastWrite.rows > 0
   /\ lastWrite.before.status # "cancelled")
  => (/\ lastWrite.caller = lastWrite.before.requester_id
      /\ lastWrite.before.status = "pending")

\* C4: a status update issued on an existing request by a caller who is neither its
\* requester, its provider nor an admin touches no row and is answered with an error.
C4_StrangerUpdateFails ==
  (/\ lastWrite.before # NoRequest
   /\ lastWrite.caller \notin {lastWrite.before.requester_id, lastWrite.before.provider_id}
   /\ ~is_admin(lastWrite.caller))
  => (lastWrite.rows = 0 /\ lastWrite.error # "none")

\* C5: in each store there is at most one pending request per (requester, provider,
\* offered skill, wanted skill), however the create submissions interleave.
C5_OnePendingPerKey ==
  /\ \A a, b \in skill_requests :
       (/\ a.status = "pending" /\ b.status = "pending"
        /\ a.requester_id = b.requester_id /\ a.provider_id = b.provider_id
        /\ a.offered_skill_id = b.offered_skill_id
        /\ a.wanted_skill_id = b.wanted_skill_id) => a.id = b.id
  /\ \A a, b \in swapRequests :
       (/\ a.status = "pending" /\ b.status = "pending"
        /\ a.requester = b.requester /\ a.recipient = b.recipient
        /\ a.offeredSkill = b.offeredSkill
        /\ a.requestedSkill = b.requestedSkill) => a.id = b.id

\* C6: a create that inserted a row was issued by the row's requester, with status
\* pending, an offered skill owned by the requester and a wanted skill owned by the
\* provider; a create whose skills are not so owned inserts nothing.
C6_CreatedRowWellOwned ==
  lastInsert.inserted =>
    (/\ lastInsert.row.requester_id = lastInsert.caller
     /\ lastInsert.row.status = "pending"
     /\ lastInsert.offeredOwned
     /\ lastInsert.wantedOwned)

\* the handlers behind the provider's Accept and Decline buttons and the requester's
\* Cancel button
RoleWrites ==
  {"Requests.handleAcceptRequest", "Requests.handleRejectRequest",
   "Requests.handleDeleteRequest", "Dashboard.handleAcceptRequest",
   "Dashboard.handleDeclineRequest"}

\* C7: a provider's accept or reject and a requester's cancel issued on the same
\* request from views that both showed it pending each succeed without error, and
\* the row holds the status written last.
C7_LastWriteWins ==
  (lastWrite.op \in RoleWrites /\ lastWrite.before # NoRequest)
  => (/\ lastWrite.error = "none"
      /\ lastWrite.rows = 1
      /\ RowById(lastWrite.id).status = lastWrite.value)

\* C7 witness: the requester's cancel has landed on a request the provider had
\* already accepted or rejected, and the row now reads cancelled
C7_Witness ==
  /\ lastWrite.op = "Requests.handleDeleteRequest"
  /\ lastWrite.before.status \in {"accepted", "rejected"}
  /\ lastWrite.caller = lastWrite.before.requester_id
  /\ lastWrite.error = "none"
  /\ RowById(lastWrite.id).status = "cancelled"

\* C8: no two rating rows share (request_id, rater_id), and a submission by a rater who
\* has already rated the request is rejected and leaves the ratings as they were.
C8_OneRatingPerRequestAndRater ==
  /\ [](\A a, b \in ratings :
          (a.request_id = b.request_id /\ a.rater_id = b.rater_id) => a = b)
  /\ [][\A x \in ratings :
          (/\ lastRating' # lastRating
           /\ lastRating'.row.request_id = x.request_id
           /\ lastRating'.row.rater_id = x.rater_id)
          => (/\ ~lastRating'.inserted
              /\ lastRating'.error # "none"
              /\ ratings' = ratings)]_vars

\* C8 witness: a second submission for an already rated request has been answered
\* with the unique violation
C8_Witness ==
  /\ lastRating.error = "23505"
  /\ \E x \in ratings : /\ x.request_id = lastRating.row.request_id
                        /\ x.rater_id = lastRating.row.rater_id
                        /\ x.rater_id = lastRating.caller

\* C9: the step that inserts a rating by a non-admin rater leaves the rated user's
\* average_rating equal to the mean (two decimals) of all rating rows for that user.
C9_AverageAfterInsert ==
  [][\A x \in ratings' \ ratings :
       ~is_admin(x.rater_id) =>
         profiles'[x.rated_id].average_rating =
           AvgRating100({r \in ratings' : r.rated_id = x.rated_id})]_vars

\* C10: every profile's average_rating is the mean of the rating rows stored for the
\* user (0 when none) and its successful_swaps the number of distinct requests among
\* them, in every reachable state, skill deletions and their cascades included.
C10_AggregatesMatchRatings ==
  \A u \in Users :
    LET mine == {r \in ratings : r.rated_id = u}
    IN  /\ profiles[u].average_rating = AvgRating100(mine)
        /\ profiles[u].successful_swaps = CountDistinctRequests(mine)

\* C10, the cascade alone: a step that removes rating rows (a skill deletion cascading
\* through skill_requests to ratings) keeps aggregates that matched matching.
C10_CascadeKeepsAggregates ==
  [][(ratings' # ratings /\ ratings' \subseteq ratings /\ C10_AggregatesMatchRatings)
       => \A u \in Users :
            LET mine == {r \in ratings' : r.rated_id = u}
            IN  /\ profiles'[u].average_rating = AvgRating100(mine)
                /\ profiles'[u].successful_swaps = CountDistinctRequests(mine)]_vars

\* C11: the step that inserts a rating finds the referenced request completed; no
\* rating is inserted for a pending, accepted, rejected or cancelled request.
C11_RatedRequestCompleted ==
  [][\A x \in ratings' \ ratings :
       \E q \in skill_requests : q.id = x.request_id /\ q.status = "completed"]_vars

\* C12: every rating's rater is the requester or the provider of its request and its
\* rated user the other of the two, and a tab shows the Rate form only to a user who
\* is party to the loaded request.
C12_RaterAndRatedAreTheParties ==
  /\ \A x \in ratings :
       \E q \in skill_requests :
         /\ q.id = x.request_id
         /\ \/ (x.rater_id = q.requester_id /\ x.rated_id = q.provider_id)
            \/ (x.rater_id = q.provider_id /\ x.rated_id = q.requester_id)
  /\ \A t \in Tabs :
       page[t].name = "Rate" =>
         tabUser(t) \in {page[t].skillRequest.requester_id, page[t].skillRequest.provider_id}

\* C12 witness: both parties have rated request 1 while u2, no party to it, was sent
\* from /rate/1 to /network
C12_Witness ==
  /\ \E x, y \in ratings : /\ x.request_id = y.request_id
                           /\ x.rater_id = y.rated_id /\ y.rater_id = x.rated_id
                           /\ x.rater_id # y.rater_id
  /\ page["t2"].name = "Networks"
  /\ \A q \in skill_requests : "u2" \notin {q.requester_id, q.provider_id}

\* C13: every stored message, in the messages table and in the REST chats, has a sender
\* who is a party to its request or chat, and a send by a caller who is no party is
\* answered with an error and changes neither store nor any pending notification.
C13_SendersAreParticipants ==
  /\ [](\A m \in messages : IsParticipant(m.sender_id, m.skill_request_id))
  /\ [](\A c \in chats : \A i \in 1..Len(c.messages) : c.messages[i].sender \in c.participants)
  /\ [][(lastSend' # lastSend /\ ~lastSend'.party)
          => /\ lastSend'.error # "none"
             /\ messages' = messages /\ chats' = chats /\ inbox' = inbox]_vars

\* C13 witness: the request's conversation and a REST chat each hold a message, and the
\* last send, by the admin who is no party to the request, was refused
C13_Witness ==
  /\ lastSend.store = "messages" /\ lastSend.caller = "u3" /\ lastSend.error = "42501"
  /\ IsParticipant("u1", lastSend.target)
  /\ \E m \in messages : m.skill_request_id = lastSend.target /\ m.sender_id = "u1"
  /\ \E c \in chats : c.messages # <<>> /\ "u3" \notin c.participants

\* C14: a mounted Chat view holds every committed message at most once in its message
\* list, however the history fetch, the insert notifications and the re-runs of the
\* view's effect interleave.
C14_NoDuplicateInView ==
  \A t \in Tabs :
    chatView[t].mounted =>
      \A i, j \in 1..Len(chatView[t].messages) :
        i # j => chatView[t].messages[i].id # chatView[t].messages[j].id

\* C15: the subscriptions a client holds are those of its mounted Chat view for the
\* view's current request; once the view is unmounted, or shows another request, the
\* subscription it opened is gone and delivers nothing.
C15_SubscriptionRemovedOnUnmount ==
  \A t \in Tabs :
    \A i \in 1..Len(channels[t]) :
      /\ chatView[t].mounted
      /\ channels[t][i].inst = chatView[t].inst
      /\ channels[t][i].req = chatView[t].requestId

\* C16: the messages query returns its rows in non-decreasing created_at order.
C16_ReadInCreationOrder ==
  \A i, j \in 1..Len(lastRead) :
    i < j => lastRead[i].created_at <= lastRead[j].created_at

\* C16 witness: a read has returned two messages created at different times
C16_Witness ==
  /\ Len(lastRead) >= 2
  /\ lastRead[1].created_at < lastRead[Len(lastRead)].created_at
  /\ lastRead[1].skill_request_id = lastRead[2].skill_request_id

\* C17: one role resolution issues at most 5 reads of the role row in its retry loop.
C17_AtMostFiveReads == \A t \in Tabs : auth[t].reads <= 5

\* C18: a role resolution that has started finishes, with loading false and the role
\* admin or user, whatever the awaited calls return and in whatever order they and the
\* timers come; and when the timeout fires before the reads have given a role, the
\* role is user.
C18_RoleResolutionFinishes ==
  /\ \A t \in Tabs :
       (auth[t].hpc # "idle")
         ~> (auth[t].hpc = "idle" /\ ~auth[t].loading /\ auth[t].userRole \in app_role)
  /\ [][\A t \in Tabs :
          (auth'[t].timedOut /\ ~auth[t].timedOut)
            => /\ auth'[t].userRole = "user" /\ ~auth'[t].loading
               /\ auth'[t].hpc = "idle"]_vars

\* C18 witness: the timeout has resolved the role to user while the retry loop of the
\* same resolution is still reading
C18_Witness ==
  /\ auth["t3"].timedOut /\ auth["t3"].hpc = "idle" /\ auth["t3"].userRole = "user"
  /\ auth["t3"].fpc = "wait" /\ auth["t3"].retryCount >= 2
  /\ ~auth["t3"].loading

\* C19: once signOut has completed, and until the next sign-in, the browser holds no
\* cached role and no admin intent of the user and the client's role is null.
C19_SignedOutMeansNoRole ==
  \A t \in Tabs :
    auth[t].signedOut =>
      /\ localStorage[t].cached_role = "none"
      /\ ~localStorage[t].admin_role
      /\ auth[t].userRole = "none"

\* C20: the admin panel is loaded only for a caller who has an admin row in user_roles.
C20_AdminPanelOnlyWithAdminRow ==
  \A t \in Tabs : page[t].name = "Admin" => is_admin(tabUser(t))

\* C21: in every reachable state each signed-up user has exactly one user_roles row,
\* whatever signups (as user or as admin), admin-intent redemptions, metadata upserts,
\* fixAdminRole calls and debug role assignments have happened.
C21_OneRolePerUser ==
  \A u \in auth_users : Cardinality({r \in user_roles : r.user_id = u}) = 1

\* C21 witness: u4 has signed up as admin and u5 as user, u5 has used the debug
\* assignment, and u4's client has been through the upserts and the admin-intent branch
\* of fetchRole and is at the first read of the retry loop
C21_Witness ==
  /\ auth_users = Users \cup NewUsers
  /\ localStorage["t6"].cached_role = "admin" /\ localStorage["t6"].admin_role
  /\ localStorage["t5"].admin_role
  /\ auth["t5"].fpc = "read" /\ auth["t5"].reads = 1 /\ auth["t5"].retryCount = 0

\* C22: when the admin rejects a skill, the skill row is deleted and every skill
\* request stored before the rejection is still stored afterwards, with its offered
\* and wanted skill references unchanged.
C22_RejectKeepsRequests ==
  [][(lastAdmin' # lastAdmin /\ lastAdmin'.op = "reject" /\ lastAdmin'.rows = 1)
       => /\ \A k \in skills' : k.id # lastAdmin'.id
          /\ \A r \in skill_requests : r \in skill_requests']_vars

\* C23: every toggle of an admin message by a session of the admin succeeds without
\* an error and writes its row; the stored is_active is the value of the toggle that
\* landed last, also when two tabs toggle from the same listing; and a toggle never
\* removes an admin message.
C23_ToggleLastWriteWins ==
  /\ [](lastAdmin.op = "toggle"
         => \E x \in admin_messages : x.id = lastAdmin.id /\ x.is_active = lastAdmin.value)
  /\ [][(lastAdmin' # lastAdmin /\ lastAdmin'.op = "toggle")
          => /\ lastAdmin'.error = "none" /\ lastAdmin'.rows = 1
             /\ {x.id : x \in admin_messages'} = {x.id : x \in admin_messages}]_vars

\* C23 witness: the last toggle came from tab t7 and wrote the value that was already
\* stored, because tab t3 had toggled the message after t7 had listed it
C23_Witness ==
  /\ lastAdmin.op = "toggle" /\ lastAdmin.tab = "t7"
  /\ lastAdmin.before = lastAdmin.value
  /\ page["t3"].name = "Admin"
  /\ \E m \in page["t3"].adminMessages : m.id = lastAdmin.id /\ m.is_active = lastAdmin.value

C25_AcceptOnlyPendingByRecipient ==
  /\ [][lastAccept' # lastAccept
          => LET r == lastAccept'
             IN  /\ r.code = 404 <=> r.doc = NoSwap
                 /\ r.code = 401 <=> (r.doc # NoSwap /\ r.doc.recipient # r.caller)
                 /\ r.code = 400 <=> (/\ r.doc # NoSwap /\ r.doc.recipient = r.caller
                                       /\ r.doc.status # "pending")
                 /\ r.code \in {404, 401, 400}
                      => swapRequests' = swapRequests /\ chats' = chats]_vars
  /\ [][\A k \in AcceptCalls :
          (acceptCall[k].pc = "save" /\ acceptCall'[k].pc = "idle")
            => \A d \in swapRequests :
                 d \notin swapRequests'
                   => d.status = "pending" /\ d.recipient = acceptCall[k].user]_vars

\* C26: however the acceptSwapRequest calls on a swap request interleave, at most one
\* chat exists for the swap request, and every chat is the one its swap request's chat
\* field names.
C26_OneChatPerSwap ==
  /\ \A a, b \in chats : a.swapId = b.swapId => a.id = b.id
  /\ \A c \in chats :
       (\A k \in AcceptCalls : ~(acceptCall[k].pc = "save" /\ acceptCall[k].chat = c.id))
         => \E d \in swapRequests : d.id = c.swapId /\ d.chat = c.id

\* C27: when a role resolution has ended with the timeout default, the next session
\* establishment of a user whose user_roles row is admin does not take the role user
\* from the client cache: the role is resolved from the database again.
C27_TimeoutRoleNotReused ==
  [][\A t \in Tabs :
       (/\ auth[t].timedOut
        /\ auth'[t].runs = auth[t].runs + 1 /\ auth'[t].session # "none"
        /\ is_admin(tabUser(t)))
         => ~(auth'[t].userRole = "user" /\ auth'[t].hpc = "idle" /\ auth'[t].fpc = "idle")]_vars
\* C28: a message committed for a request after an open Chat view of that request has
\* subscribed comes to be in the view's message list and stays in it while the view is
\* open, also when it was committed while the history fetch was in flight.
C28_CommittedMessageShown ==
  \A k \in 1..MaxMsg :
    []((\E m \in messages : m.id = k /\ m.skill_request_id = chatView["t1"].requestId)
         => <>[](\E i \in 1..Len(chatView["t1"].messages) : chatView["t1"].messages[i].id = k))

C30_NoSelfRequest ==
  /\ \A r \in skill_requests : r.requester_id # r.provider_id
  /\ \A x \in swapRequests : x.requester # x.recipient

====
